---- MODULE Spec2Model ----
(***************************************************************************)
(* Model of the Aero Arc registry storage backends.                        *)
(*                                                                         *)
(* src/internal/registry/backend/redis/backend.go holds two adapters for   *)
(* the same Backend contract:                                              *)
(*   - the go-redis adapter (lines 1-318), called "goredis" here, which    *)
(*     stores hashes with a native expiration and re-checks the stored     *)
(*     timestamp on reads;                                                 *)
(*   - the wire-protocol adapter (lines 320-919), called "wire" here,      *)
(*     which stores JSON strings, speaks RESP over one shared connection   *)
(*     and wraps multi-key writes in MULTI/EXEC.                           *)
(* The variable `variant` selects the adapter; it is fixed by Init.        *)
(*                                                                         *)
(* Time is counted in ticks; a millisecond is TicksPerMs ticks, so that    *)
(* the conversion to and from integer milliseconds loses the sub-ms part.  *)
(* The zero time.Time is tick 0; the clock starts at StartTime.            *)
(***************************************************************************)
EXTENDS Integers, Sequences, FiniteSets, TLC

VARIABLES
    variant,   \* which adapter is running: "goredis" or "wire"
    cfg,       \* the RedisConfig the backend was built with: Password set?, DB
    reg,       \* the registry Config at hand and the result of the last call made on it
    etcd,      \* the etcd-shaped backend: its three maps and the result of its last call
    db,        \* the key-value store: relay/agent/placement keys and the two index sets
    now,       \* the wall clock, in ticks
    conn,      \* wire adapter: TRUE while b.conn is non-nil
    socks,     \* wire adapter: number of sockets dialled and not yet closed
    deadline,  \* wire adapter: the I/O deadline set on b.conn, or NoDeadline
    run,       \* Registry.Run: its context, channels, position and return value
    resp,      \* a command, the bytes written for it and what readRESP makes of them
    last,      \* the last completed call: operation, arguments, error and result
    mu,        \* wire adapter: holder of b.mu, or NoCaller
    pc,        \* per caller: position inside the current call
    frame,     \* per caller: the locals of the current call
    calls,     \* number of calls made so far
    faults     \* number of transport failures and error replies injected so far

vars == <<variant, deadline, run, cfg, reg, resp, socks, etcd, db, now, conn, last, mu, pc, frame, calls, faults>>

----------------------------------------------------------------------------
(* Bounds *)

MaxTime == 6
MaxCalls == 4
MaxFaults == 1

(* Configuration and inputs *)

TicksPerMs == 2
StartTime == TicksPerMs
ZeroTime == 0
(* net.Conn.SetDeadline: the zero time means no deadline *)
NoDeadline == ZeroTime
(* no Registry.Run call has been made *)
NotRunning ==
    [pc |-> "none", ctx |-> "live", serving |-> FALSE, runErrCh |-> <<>>,
     shutdownTimeout |-> 0, since |-> ZeroTime, shutdownErrCh |-> <<>>,
     doneAt |-> ZeroTime, ret |-> "none"]
RelayTTLMs == 1
AgentTTLMs == 1
RelayTTL == RelayTTLMs * TicksPerMs
AgentTTL == AgentTTLMs * TicksPerMs
Persist == 0 - 1

EmptyID == ""
RelayIds == {"r1", "r2"}
AgentIds == {"a1"}
Addresses == {"10.0.0.1"}
Ports == {50051}
TimeInputs == {ZeroTime, StartTime + 1, MaxTime}
Variants == {"goredis", "wire"}
Callers == {1, 2}
NoCaller == 0

(* time.Time.UnixMilli and time.UnixMilli *)
UnixMilli(t) == t \div TicksPerMs
FromUnixMilli(ms) == ms * TicksPerMs
IsZero(t) == t = ZeroTime

----------------------------------------------------------------------------
(* The store.  Each of db.relay, db.agent and db.placement is a function   *)
(* whose domain is the set of ids whose key exists; db.relays and          *)
(* db.agents are the index sets.                                           *)

EmptyFn == [k \in {} |-> k]

EmptyDB ==
    [relay |-> EmptyFn, agent |-> EmptyFn, placement |-> EmptyFn, relays |-> {}, agents |-> {}]

Exists(d, ns, id) == id \in DOMAIN d[ns]

Put(f, id, v) == [k \in (DOMAIN f) \cup {id} |-> IF k = id THEN v ELSE f[k]]
Drop(f, ids) == [k \in (DOMAIN f) \ ids |-> f[k]]

(* SET key value (no expiration), DEL key, SADD set member, SREM set member *)
Set(d, ns, id, v) == [d EXCEPT ![ns] = Put(@, id, v)]
Del(d, ns, ids) == [d EXCEPT ![ns] = Drop(@, ids)]
SAdd(d, set, id) == [d EXCEPT ![set] = @ \cup {id}]
SRem(d, set, ids) == [d EXCEPT ![set] = @ \ ids]

(* PEXPIRE key ms: the key expires once the server clock, in milliseconds, *)
(* is past the time of the call plus ms.  A missing key is left alone.     *)
PExpire(d, ns, id, ms, t) ==
    IF Exists(d, ns, id)
    THEN [d EXCEPT ![ns][id].exp = UnixMilli(t) + ms]
    ELSE d

Expired(rec, t) == rec.exp # Persist /\ UnixMilli(t) > rec.exp

(* The store drops every key whose native expiration has passed. *)
Purge(d, t) ==
    [d EXCEPT !.relay = Drop(@, {k \in DOMAIN @ : Expired(@[k], t)}),
              !.agent = Drop(@, {k \in DOMAIN @ : Expired(@[k], t)}),
              !.placement = Drop(@, {k \in DOMAIN @ : Expired(@[k], t)})]

----------------------------------------------------------------------------
(* Results of a call: the store and connection after it, the error        *)
(* returned ("nil" for none), and the value returned.  A relay list is a   *)
(* set of relays; a placement is a sequence of zero or one placements.     *)

Ret(d, c, err, rs, pl) ==
    [db |-> d, conn |-> c, err |-> err, phase |-> "", steps |-> 0, log |-> <<>>,
     open |-> socks, peak |-> socks, relays |-> rs, placement |-> pl]
Ok(d, c) == Ret(d, c, "nil", {}, <<>>)
Fail(d, c, err) == Ret(d, c, err, {}, <<>>)

MkRelay(id, addr, port, seen) ==
    [ID |-> id, Address |-> addr, GRPCPort |-> port, LastSeen |-> seen]
MkAgent(id, hb) == [ID |-> id, LastHeartbeat |-> hb]
MkPlacement(aid, rid, upd) == [AgentID |-> aid, RelayID |-> rid, UpdatedAt |-> upd]

----------------------------------------------------------------------------
(* go-redis adapter.  A key holds a hash; a field that was never written   *)
(* reads as "" (0 for the numeric fields), which is what parseRelay and    *)
(* parsePlacement see.  HSET keeps the other fields and the expiration of  *)
(* an existing key and creates a missing key without expiration.           *)

BlankRelayHash ==
    [ID |-> "", Address |-> "", GRPCPort |-> 0, LastSeenUnixMs |-> 0, exp |-> Persist]
BlankAgentHash == [ID |-> "", LastHeartbeatUnixMs |-> 0, exp |-> Persist]
BlankPlacementHash == [AgentID |-> "", RelayID |-> "", UpdatedAtUnixMs |-> 0, exp |-> Persist]

Hash(d, ns, id, blank) == IF Exists(d, ns, id) THEN d[ns][id] ELSE blank

parseRelay(data) ==
    MkRelay(data.ID, data.Address, data.GRPCPort,
            IF data.LastSeenUnixMs = 0 THEN ZeroTime ELSE FromUnixMilli(data.LastSeenUnixMs))

parsePlacement(data) ==
    MkPlacement(data.AgentID, data.RelayID,
                IF data.UpdatedAtUnixMs = 0 THEN ZeroTime ELSE FromUnixMilli(data.UpdatedAtUnixMs))

G_RegisterRelay(d, t, relay) ==
    LET h == [Hash(d, "relay", relay.ID, BlankRelayHash) EXCEPT
                 !.ID = relay.ID, !.Address = relay.Address,
                 !.GRPCPort = relay.GRPCPort, !.LastSeenUnixMs = UnixMilli(t)]
        d1 == Set(d, "relay", relay.ID, h)
        d2 == PExpire(d1, "relay", relay.ID, RelayTTLMs, t)
    IN  Ok(SAdd(d2, "relays", relay.ID), FALSE)

G_HeartbeatRelay(d, t, relayID, ts) ==
    IF IsZero(ts) THEN Fail(d, FALSE, "ErrHeartbeatTimestampMissing")
    ELSE
    LET h == [Hash(d, "relay", relayID, BlankRelayHash) EXCEPT
                 !.LastSeenUnixMs = UnixMilli(ts)]
        d1 == Set(d, "relay", relayID, h)
        d2 == PExpire(d1, "relay", relayID, RelayTTLMs, t)
    IN  Ok(SAdd(d2, "relays", relayID), FALSE)

(* The relay a listing yields for index member id, and whether it is stale *)
G_Stale(d, t, id) ==
    \/ ~Exists(d, "relay", id)
    \/ LET relay == parseRelay(d.relay[id])
       IN  IsZero(relay.LastSeen) \/ t - relay.LastSeen > RelayTTL

(* the id that the listing puts in staleIDs for index member id *)
G_StaleID(d, id) ==
    IF ~Exists(d, "relay", id) THEN id ELSE parseRelay(d.relay[id]).ID

G_ListRelays(d, t) ==
    LET ids == d.relays
        staleIDs == {G_StaleID(d, id) : id \in {i \in ids : G_Stale(d, t, i)}}
        relays == {parseRelay(d.relay[id]) : id \in {i \in ids : ~G_Stale(d, t, i)}}
        d1 == SRem(Del(d, "relay", staleIDs), "relays", staleIDs)
    IN  Ret(d1, FALSE, "nil", relays, <<>>)

G_RemoveRelay(d, relayID) ==
    Ok(SRem(Del(d, "relay", {relayID}), "relays", {relayID}), FALSE)

G_RegisterAgent(d, t, agent, relayID) ==
    LET ha == [Hash(d, "agent", agent.ID, BlankAgentHash) EXCEPT
                  !.ID = agent.ID, !.LastHeartbeatUnixMs = UnixMilli(t)]
        d1 == PExpire(Set(d, "agent", agent.ID, ha), "agent", agent.ID, AgentTTLMs, t)
        hp == [Hash(d1, "placement", agent.ID, BlankPlacementHash) EXCEPT
                  !.AgentID = agent.ID, !.RelayID = relayID,
                  !.UpdatedAtUnixMs = UnixMilli(t)]
        d2 == PExpire(Set(d1, "placement", agent.ID, hp), "placement", agent.ID, AgentTTLMs, t)
    IN  Ok(SAdd(d2, "agents", agent.ID), FALSE)

(* a heartbeat that writes without looking for the placement first, as    *)
(* HeartbeatRelay does                                                     *)
G_HeartbeatAgent_Upsert(d, t, agentID, ts) ==
    IF IsZero(ts) THEN Fail(d, FALSE, "ErrHeartbeatTimestampMissing")
    ELSE
    LET ha == [Hash(d, "agent", agentID, BlankAgentHash) EXCEPT
                  !.LastHeartbeatUnixMs = UnixMilli(ts)]
        d1 == PExpire(Set(d, "agent", agentID, ha), "agent", agentID, AgentTTLMs, t)
        hp == [Hash(d1, "placement", agentID, BlankPlacementHash) EXCEPT
                  !.UpdatedAtUnixMs = UnixMilli(t)]
        d2 == PExpire(Set(d1, "placement", agentID, hp), "placement", agentID, AgentTTLMs, t)
    IN  Ok(SAdd(d2, "agents", agentID), FALSE)

G_HeartbeatAgent(d, t, agentID, ts) ==
    IF IsZero(ts) THEN Fail(d, FALSE, "ErrHeartbeatTimestampMissing")
    ELSE IF ~Exists(d, "placement", agentID) THEN Fail(d, FALSE, "ErrAgentNotPlaced")
    ELSE
    LET placementData == d.placement[agentID]
    IN  IF placementData.AgentID = "" \/ placementData.RelayID = ""
        THEN Fail(d, FALSE, "ErrAgentNotPlaced")
        ELSE
        LET ha == [Hash(d, "agent", agentID, BlankAgentHash) EXCEPT
                      !.LastHeartbeatUnixMs = UnixMilli(ts)]
            d1 == PExpire(Set(d, "agent", agentID, ha), "agent", agentID, AgentTTLMs, t)
            hp == [placementData EXCEPT !.UpdatedAtUnixMs = UnixMilli(t)]
            d2 == PExpire(Set(d1, "placement", agentID, hp), "placement", agentID, AgentTTLMs, t)
        IN  Ok(SAdd(d2, "agents", agentID), FALSE)

G_GetAgentPlacement(d, t, agentID) ==
    IF ~Exists(d, "placement", agentID) THEN Fail(d, FALSE, "ErrAgentNotPlaced")
    ELSE
    LET placement == parsePlacement(d.placement[agentID])
    IN  IF IsZero(placement.UpdatedAt) \/ t - placement.UpdatedAt > AgentTTL
        THEN Fail(SRem(Del(Del(d, "agent", {agentID}), "placement", {agentID}),
                       "agents", {agentID}), FALSE, "ErrAgentNotPlaced")
        ELSE Ret(d, FALSE, "nil", {}, <<placement>>)

----------------------------------------------------------------------------
(* Wire-protocol adapter.  A key holds the JSON encoding of the record;    *)
(* encoding/json keeps every field and the full time, so the stored value  *)
(* is the record itself, written by SET without expiration.                *)

Marshal(v) == [f \in (DOMAIN v) \cup {"exp"} |-> IF f = "exp" THEN Persist ELSE v[f]]
Unmarshal(s) == [f \in (DOMAIN s) \ {"exp"} |-> s[f]]

Cmd(op, key, id, val) == [op |-> op, key |-> key, id |-> id, val |-> val]

(* What the server does with one command and what it replies.  A bulk      *)
(* reply is a sequence of zero (nil) or one values.                        *)
ServerExec(d, cmd) ==
    CASE cmd.op = "SET" -> [db |-> Set(d, cmd.key, cmd.id, cmd.val), reply |-> "OK"]
      [] cmd.op = "DEL" -> [db |-> Del(d, cmd.key, {cmd.id}),
                            reply |-> IF Exists(d, cmd.key, cmd.id) THEN 1 ELSE 0]
      [] cmd.op = "SADD" -> [db |-> SAdd(d, cmd.key, cmd.id),
                             reply |-> IF cmd.id \in d[cmd.key] THEN 0 ELSE 1]
      [] cmd.op = "SREM" -> [db |-> SRem(d, cmd.key, {cmd.id}),
                             reply |-> IF cmd.id \in d[cmd.key] THEN 1 ELSE 0]
      [] cmd.op = "GET" -> [db |-> d,
                            reply |-> IF Exists(d, cmd.key, cmd.id)
                                      THEN <<d[cmd.key][cmd.id]>> ELSE <<>>]
      [] cmd.op = "EXISTS" -> [db |-> d,
                               reply |-> IF Exists(d, cmd.key, cmd.id) THEN 1 ELSE 0]
      [] cmd.op = "SMEMBERS" -> [db |-> d, reply |-> d[cmd.key]]
      [] cmd.op = "MGET" -> [db |-> d,
                             reply |-> [i \in cmd.id |->
                                          IF Exists(d, cmd.key, i)
                                          THEN <<d[cmd.key][i]>> ELSE <<>>]]

RECURSIVE ServerExecAll(_, _)
ServerExecAll(d, cmds) ==
    IF cmds = <<>> THEN d
    ELSE ServerExecAll(ServerExec(d, Head(cmds)).db, Tail(cmds))

(* A call threads x = [db, conn, n, err, reply, phase] through its         *)
(* exchanges: n counts the I/O steps (dial, write, read) made so far.  The *)
(* input F = [at, kind] makes I/O step number F.at fail (0: none).  A      *)
(* failing read is either a transport error after the server acted ("io")  *)
(* or an error reply, the server having refused the command ("reply").     *)
(* phase names the step at which the exchange failed.                      *)

NoFailure == [at |-> 0, kind |-> "io"]
Exchange(d, c) ==
    [db |-> d, conn |-> c, n |-> 0, err |-> "nil", reply |-> <<>>, phase |-> "",
     log |-> <<>>, open |-> socks, peak |-> socks]

(* an error return that forgets to drop the connection *)
closeConn_KeepOpen(x, err, phase) ==
    [x EXCEPT !.err = err, !.phase = phase]

(* closeConn, on the error path of an exchange: the socket is closed and  *)
(* b.conn forgotten                                                        *)
closeConn(x, err, phase) ==
    [x EXCEPT !.conn = FALSE, !.open = IF x.conn THEN @ - 1 ELSE @, !.err = err,
              !.phase = phase]

(* The configurations: whether a password is set, and the database index. *)
(* NoAuth is the configuration that needs no handshake.                    *)
NoAuth == [Password |-> FALSE, DB |-> 0]
Configs == [Password : BOOLEAN, DB : {0, 1}]

(* the commands ensureConn sends on a new connection *)
HandshakeCmds(c) ==
    (IF c.Password THEN <<"AUTH">> ELSE <<>>) \o (IF c.DB > 0 THEN <<"SELECT">> ELSE <<>>)
ReplyTo(c) == IF c = "AUTH" THEN "AUTH reply" ELSE "SELECT reply"

(* a handshake that keeps the connection when a step of it fails *)
RECURSIVE handshake_KeepOnFailure(_, _, _)
handshake_KeepOnFailure(x, F, cmds) ==
    IF cmds = <<>> THEN [x EXCEPT !.conn = TRUE]
    ELSE LET w == [x EXCEPT !.n = @ + 1]
             r == [w EXCEPT !.n = @ + 1, !.log = Append(@, Head(cmds))]
         IN  IF w.n = F.at THEN [w EXCEPT !.err = "io", !.phase = "handshake", !.conn = TRUE]
             ELSE IF r.n = F.at
                  THEN [r EXCEPT !.err = F.kind, !.phase = "handshake", !.conn = TRUE]
             ELSE handshake_KeepOnFailure([r EXCEPT !.log = Append(@, ReplyTo(Head(cmds)))],
                                          F, Tail(cmds))

(* the handshake on the dialled connection: each command written and its  *)
(* reply read; a failing step closes the connection, which is stored in    *)
(* b.conn only after the last step.  The log records the writes and reads  *)
(* that succeeded.                                                         *)
RECURSIVE handshake(_, _, _)
handshake(x, F, cmds) ==
    IF cmds = <<>> THEN [x EXCEPT !.conn = TRUE]
    ELSE LET w == [x EXCEPT !.n = @ + 1]
             r == [w EXCEPT !.n = @ + 1, !.log = Append(@, Head(cmds))]
         IN  IF w.n = F.at
             THEN [w EXCEPT !.err = "io", !.phase = "handshake", !.open = @ - 1]
             ELSE IF r.n = F.at
                  THEN [r EXCEPT !.err = F.kind, !.phase = "handshake", !.open = @ - 1]
             ELSE handshake([r EXCEPT !.log = Append(@, ReplyTo(Head(cmds)))], F, Tail(cmds))

(* a socket is dialled: one more is open *)
Dialled(x) ==
    [x EXCEPT !.log = Append(@, "dial"), !.open = @ + 1,
              !.peak = IF x.open + 1 > @ THEN x.open + 1 ELSE @]

(* an ensureConn that dials whether or not a connection is held *)
ensureConn_AlwaysDial(x, F) ==
    LET x1 == [x EXCEPT !.n = @ + 1]
    IN  IF x1.n = F.at THEN [x1 EXCEPT !.err = "io", !.phase = "dial"]
        ELSE handshake(Dialled(x1), F, HandshakeCmds(cfg))

(* ensureConn: dial when there is no connection, then shake hands *)
ensureConn(x, F) ==
    IF x.conn THEN x
    ELSE LET x1 == [x EXCEPT !.n = @ + 1]
         IN  IF x1.n = F.at THEN [x1 EXCEPT !.err = "io", !.phase = "dial"]
             ELSE handshake(Dialled(x1), F, HandshakeCmds(cfg))

(* a command of the caller has been written on the connection *)
UserCmd(x) ==
    [x EXCEPT !.log = IF @ # <<>> /\ @[Len(@)] = "CMD" THEN @ ELSE Append(@, "CMD")]

exec(x, F, cmd) ==
    LET x1 == ensureConn(x, F)
        x2 == [x1 EXCEPT !.n = @ + 1]
        x3 == [UserCmd(x2) EXCEPT !.n = @ + 1]
        r == ServerExec(x.db, cmd)
    IN  IF x1.err # "nil" THEN x1
        ELSE IF x2.n = F.at THEN closeConn(x2, "io", "write")
        ELSE IF x3.n = F.at
             THEN IF F.kind = "reply" THEN closeConn(x3, "reply", "read")
                  ELSE closeConn([x3 EXCEPT !.db = r.db], "io", "read")
        ELSE [x3 EXCEPT !.db = r.db, !.reply = r.reply]

(* a batch sent without MULTI/EXEC: each command takes effect as it is read *)
execMulti_NoTransaction(x, F, cmds) ==
    LET x1 == ensureConn(x, F)
        total == 2 * Len(cmds) + 4
        done == [x1 EXCEPT !.n = @ + total]
        k == F.at - x1.n
        written == IF k <= 2 THEN 0
                   ELSE IF k > 2 * Len(cmds) + 2 THEN Len(cmds)
                   ELSE IF F.kind = "reply" /\ k % 2 = 0 THEN (k - 2) \div 2 - 1
                   ELSE (k - 2) \div 2
    IN  IF x1.err # "nil" THEN x1
        ELSE IF F.at > x1.n /\ F.at <= done.n
             THEN closeConn([x1 EXCEPT !.n = F.at,
                                       !.db = ServerExecAll(x.db, SubSeq(cmds, 1, written))],
                            IF F.kind = "reply" /\ k % 2 = 0 THEN "reply" ELSE "io",
                            IF k <= 2 THEN "MULTI"
                            ELSE IF F.at = done.n - 1 THEN "EXEC write"
                            ELSE IF F.at = done.n THEN "EXEC read" ELSE "QUEUE")
        ELSE [done EXCEPT !.db = ServerExecAll(x.db, cmds)]

(* execMulti: MULTI, each command queued and acknowledged, EXEC.  The      *)
(* server applies the queued commands when it receives EXEC and discards   *)
(* them when the connection is closed before that.                         *)
execMulti(x, F, cmds) ==
    LET x1 == ensureConn(x, F)
        total == 2 * Len(cmds) + 4
        done == [UserCmd(x1) EXCEPT !.n = @ + total]
        applied == ServerExecAll(x.db, cmds)
    IN  IF x1.err # "nil" THEN x1
        ELSE IF F.at > x1.n /\ F.at < done.n
             THEN closeConn([(IF F.at = x1.n + 1 THEN x1 ELSE UserCmd(x1)) EXCEPT !.n = F.at],
                            IF F.kind = "reply" /\ (F.at - x1.n) % 2 = 0 THEN "reply" ELSE "io",
                            IF F.at - x1.n <= 2 THEN "MULTI"
                            ELSE IF F.at = done.n - 1 THEN "EXEC write" ELSE "QUEUE")
        ELSE IF F.at = done.n
             THEN IF F.kind = "reply" THEN closeConn(done, "reply", "EXEC read")
                  ELSE closeConn([done EXCEPT !.db = applied], "io", "EXEC read")
        ELSE [done EXCEPT !.db = applied]

XFail(x, err) == [x EXCEPT !.err = err]
XRet(x, rs, pl) ==
    [Ret(x.db, x.conn, x.err, rs, pl) EXCEPT !.phase = x.phase, !.steps = x.n,
                                             !.log = x.log, !.open = x.open,
                                             !.peak = x.peak]

getRelay(x, F, relayID) ==
    LET x1 == exec(x, F, Cmd("GET", "relay", relayID, <<>>))
    IN  IF x1.err # "nil" THEN x1
        ELSE IF x1.reply = <<>> THEN XFail(x1, "ErrRelayNotRegistered")
        ELSE [x1 EXCEPT !.reply = Unmarshal(x1.reply[1])]

getAgent(x, F, agentID) ==
    LET x1 == exec(x, F, Cmd("GET", "agent", agentID, <<>>))
    IN  IF x1.err # "nil" THEN x1
        ELSE IF x1.reply = <<>> THEN XFail(x1, "ErrAgentNotRegistered")
        ELSE [x1 EXCEPT !.reply = Unmarshal(x1.reply[1])]

W_RegisterRelayX(x, F, t, relay) ==
    IF relay.ID = "" THEN XFail(x, "ErrRelayIDEmpty")
    ELSE
    LET stamped == IF IsZero(relay.LastSeen) THEN [relay EXCEPT !.LastSeen = t] ELSE relay
    IN  execMulti(x, F, << Cmd("SET", "relay", relay.ID, Marshal(stamped)),
                          Cmd("SADD", "relays", relay.ID, <<>>) >>)

W_RegisterRelay(x, F, t, relay) == XRet(W_RegisterRelayX(x, F, t, relay), {}, <<>>)

W_HeartbeatRelay(x, F, t, relayID, ts) ==
    IF relayID = "" THEN XRet(XFail(x, "ErrRelayIDEmpty"), {}, <<>>)
    ELSE
    LET ts1 == IF IsZero(ts) THEN t ELSE ts
        x1 == getRelay(x, F, relayID)
    IN  IF x1.err # "nil" THEN XRet(x1, {}, <<>>)
        ELSE XRet(W_RegisterRelayX(x1, F, t, [x1.reply EXCEPT !.LastSeen = ts1]), {}, <<>>)

(* cleanup loop of ListRelays: SREM for each stale id, errors ignored; a   *)
(* failed exchange closes the connection and the next one dials again.     *)
RECURSIVE W_Cleanup(_, _, _)
W_Cleanup(x, F, stale) ==
    IF stale = {} THEN x
    ELSE LET id == CHOOSE i \in stale : TRUE
             x1 == exec([x EXCEPT !.err = "nil"], F, Cmd("SREM", "relays", id, <<>>))
         IN  W_Cleanup(x1, F, stale \ {id})

W_ListRelays(x, F) ==
    LET x1 == exec(x, F, Cmd("SMEMBERS", "relays", <<>>, <<>>))
    IN  IF x1.err # "nil" THEN XRet(x1, {}, <<>>)
        ELSE IF x1.reply = {} THEN XRet(x1, {}, <<>>)
        ELSE
        LET ids == x1.reply
            x2 == exec(x1, F, Cmd("MGET", "relay", ids, <<>>))
        IN  IF x2.err # "nil" THEN XRet(x2, {}, <<>>)
            ELSE
            LET items == x2.reply
                staleIDs == {i \in ids : items[i] = <<>>}
                relays == {Unmarshal(items[i][1]) : i \in ids \ staleIDs}
                x3 == W_Cleanup(x2, F, staleIDs)
            IN  XRet([x3 EXCEPT !.err = "nil", !.phase = ""], relays, <<>>)

(* the commands of RemoveRelay's batch *)
RemoveRelayCmds_Cascade(d, relayID) ==
    << Cmd("DEL", "relay", relayID, <<>>), Cmd("SREM", "relays", relayID, <<>>) >>
    \o (IF \E a \in AgentIds : Exists(d, "placement", a) /\ d.placement[a].RelayID = relayID
        THEN LET a == CHOOSE a \in AgentIds :
                         Exists(d, "placement", a) /\ d.placement[a].RelayID = relayID
             IN  << Cmd("DEL", "placement", a, <<>>), Cmd("DEL", "agent", a, <<>>),
                    Cmd("SREM", "agents", a, <<>>) >>
        ELSE << >>)

RemoveRelayCmds(d, relayID) ==
    << Cmd("DEL", "relay", relayID, <<>>), Cmd("SREM", "relays", relayID, <<>>) >>

W_RemoveRelay(x, F, relayID) ==
    IF relayID = "" THEN XRet(XFail(x, "ErrRelayIDEmpty"), {}, <<>>)
    ELSE
    LET x1 == exec(x, F, Cmd("EXISTS", "relay", relayID, <<>>))
    IN  IF x1.err # "nil" THEN XRet(x1, {}, <<>>)
        ELSE IF x1.reply = 0 THEN XRet(XFail(x1, "ErrRelayNotRegistered"), {}, <<>>)
        ELSE XRet(execMulti(x1, F, RemoveRelayCmds(x1.db, relayID)), {}, <<>>)

W_RegisterAgent(x, F, t, agent, relayID) ==
    IF relayID = "" THEN XRet(XFail(x, "ErrRelayIDEmpty"), {}, <<>>)
    ELSE IF agent.ID = "" THEN XRet(XFail(x, "ErrAgentIDEmpty"), {}, <<>>)
    ELSE
    LET x1 == getRelay(x, F, relayID)
        stamped == IF IsZero(agent.LastHeartbeat)
                   THEN [agent EXCEPT !.LastHeartbeat = t] ELSE agent
        placement == MkPlacement(agent.ID, relayID, stamped.LastHeartbeat)
    IN  IF x1.err # "nil" THEN XRet(x1, {}, <<>>)
        ELSE XRet(execMulti(x1, F, << Cmd("SET", "agent", agent.ID, Marshal(stamped)),
                                     Cmd("SET", "placement", agent.ID, Marshal(placement)),
                                     Cmd("SADD", "agents", agent.ID, <<>>) >>), {}, <<>>)

W_GetAgentPlacementX(x, F, agentID) ==
    IF agentID = "" THEN XFail(x, "ErrAgentIDEmpty")
    ELSE
    LET x1 == exec(x, F, Cmd("GET", "placement", agentID, <<>>))
    IN  IF x1.err # "nil" THEN x1
        ELSE IF x1.reply = <<>> THEN XFail(x1, "ErrAgentNotRegistered")
        ELSE [x1 EXCEPT !.reply = Unmarshal(x1.reply[1])]

W_GetAgentPlacement(x, F, agentID) ==
    LET x1 == W_GetAgentPlacementX(x, F, agentID)
    IN  XRet(x1, {}, IF x1.err = "nil" THEN <<x1.reply>> ELSE <<>>)

W_HeartbeatAgent(x, F, t, agentID, ts) ==
    IF agentID = "" THEN XRet(XFail(x, "ErrAgentIDEmpty"), {}, <<>>)
    ELSE
    LET x1 == getAgent(x, F, agentID)
        ts1 == IF IsZero(ts) THEN t ELSE ts
    IN  IF x1.err # "nil" THEN XRet(x1, {}, <<>>)
        ELSE
        LET agent == [x1.reply EXCEPT !.LastHeartbeat = ts1]
            x2 == W_GetAgentPlacementX(x1, F, agentID)
        IN  IF x2.err # "nil" THEN XRet(x2, {}, <<>>)
            ELSE
            LET placement == [x2.reply EXCEPT !.UpdatedAt = ts1]
            IN  XRet(execMulti(x2, F, << Cmd("SET", "agent", agentID, Marshal(agent)),
                                        Cmd("SET", "placement", agentID, Marshal(placement)) >>),
                     {}, <<>>)

----------------------------------------------------------------------------
(* The etcd-shaped backend: three in-process maps under one lock.  A call  *)
(* gives the maps after it, the error returned, and the value returned.    *)

EmptyEtcd ==
    [relays |-> EmptyFn, agents |-> EmptyFn, placements |-> EmptyFn,
     err |-> "nil", listed |-> {}, found |-> <<>>]

E_Ret(m, err) == [m EXCEPT !.err = err, !.listed = {}, !.found = <<>>]

E_RegisterRelay(m, t, relay) ==
    IF relay.ID = "" THEN E_Ret(m, "ErrRelayIDEmpty")
    ELSE LET stamped == IF IsZero(relay.LastSeen) THEN [relay EXCEPT !.LastSeen = t]
                        ELSE relay
         IN  E_Ret([m EXCEPT !.relays = Put(@, relay.ID, stamped)], "nil")

(* a heartbeat that registers the relay it does not find *)
E_HeartbeatRelay_Upsert(m, t, relayID, ts) ==
    IF relayID = "" THEN E_Ret(m, "ErrRelayIDEmpty")
    ELSE LET ts1 == IF IsZero(ts) THEN t ELSE ts
         IN  E_Ret([m EXCEPT !.relays = Put(@, relayID, MkRelay(relayID, "", 0, ts1))], "nil")

E_HeartbeatRelay(m, t, relayID, ts) ==
    IF relayID = "" THEN E_Ret(m, "ErrRelayIDEmpty")
    ELSE LET ts1 == IF IsZero(ts) THEN t ELSE ts
         IN  IF relayID \notin DOMAIN m.relays THEN E_Ret(m, "ErrRelayNotRegistered")
             ELSE E_Ret([m EXCEPT !.relays[relayID].LastSeen = ts1], "nil")

E_ListRelays(m) ==
    [E_Ret(m, "nil") EXCEPT !.listed = {m.relays[r] : r \in DOMAIN m.relays}]

E_RemoveRelay(m, relayID) ==
    IF relayID = "" THEN E_Ret(m, "ErrRelayIDEmpty")
    ELSE IF relayID \notin DOMAIN m.relays THEN E_Ret(m, "ErrRelayNotRegistered")
    ELSE E_Ret([m EXCEPT !.relays = Drop(@, {relayID})], "nil")

E_RegisterAgent(m, t, agent, relayID) ==
    IF relayID = "" THEN E_Ret(m, "ErrRelayIDEmpty")
    ELSE IF agent.ID = "" THEN E_Ret(m, "ErrAgentIDEmpty")
    ELSE LET stamped == IF IsZero(agent.LastHeartbeat)
                        THEN [agent EXCEPT !.LastHeartbeat = t] ELSE agent
         IN  IF relayID \notin DOMAIN m.relays THEN E_Ret(m, "ErrRelayNotRegistered")
             ELSE E_Ret([m EXCEPT !.agents = Put(@, agent.ID, stamped),
                                  !.placements = Put(@, agent.ID,
                                      MkPlacement(agent.ID, relayID, stamped.LastHeartbeat))],
                        "nil")

E_HeartbeatAgent(m, t, agentID, ts) ==
    IF agentID = "" THEN E_Ret(m, "ErrAgentIDEmpty")
    ELSE LET ts1 == IF IsZero(ts) THEN t ELSE ts
         IN  IF agentID \notin DOMAIN m.agents THEN E_Ret(m, "ErrAgentNotRegistered")
             ELSE IF agentID \notin DOMAIN m.placements
                  THEN E_Ret(m, "ErrAgentNotRegistered")
             ELSE E_Ret([m EXCEPT !.agents[agentID].LastHeartbeat = ts1,
                                  !.placements[agentID].UpdatedAt = ts1], "nil")

E_GetAgentPlacement(m, agentID) ==
    IF agentID = "" THEN E_Ret(m, "ErrAgentIDEmpty")
    ELSE IF agentID \notin DOMAIN m.placements THEN E_Ret(m, "ErrAgentNotRegistered")
    ELSE [E_Ret(m, "nil") EXCEPT !.found = <<m.placements[agentID]>>]

----------------------------------------------------------------------------
(* Registry configuration: internal/registry/config.go *)

RedisRegistryBackend == "redis"
EtcdRegistryBackend == "etcd"
ConsulRegistryBackend == "consul"
MemoryRegistryBackend == "memory"
NoBackend == ""
BackendKinds ==
    {RedisRegistryBackend, EtcdRegistryBackend, ConsulRegistryBackend, MemoryRegistryBackend}

(* the lookup table of ParseRegistryBackend *)
registryMap == [s \in {"redis"} |-> RedisRegistryBackend]

ParseRegistryBackend(backend) ==
    IF backend \in DOMAIN registryMap
    THEN [kind |-> registryMap[backend], err |-> "nil"]
    ELSE [kind |-> NoBackend, err |-> "ErrUnsupportedBackend"]

NilRedis == [nil |-> TRUE]
RedisConfigs == [nil : {FALSE}, Address : {"", "localhost"}, Port : {0, 1}, DB : {0 - 1, 0}]
TLSConfigs == [Enabled : BOOLEAN, CertPath : {"", "crt"}, KeyPath : {"", "key"}]
PortInputs == {0 - 1, 0, 1}
TTLInputs == {0 - 1, 0, 1}
TypeInputs == BackendKinds \cup {"zookeeper"}
RegistryConfigs ==
    [Type : TypeInputs, Redis : {NilRedis} \cup RedisConfigs,
     ListenPort : PortInputs, TLS : TLSConfigs, Agent : TTLInputs, Relay : TTLInputs]
NilConfig == [nil |-> TRUE]
ValidConfig ==
    [Type |-> RedisRegistryBackend,
     Redis |-> [nil |-> FALSE, Address |-> "localhost", Port |-> 1, DB |-> 0],
     ListenPort |-> 1, TLS |-> [Enabled |-> FALSE, CertPath |-> "", KeyPath |-> ""],
     Agent |-> 1, Relay |-> 1]

RedisConfigValidate(r) ==
    IF r.Address = "" THEN "ErrRedisAddrEmpty"
    ELSE IF r.Port <= 0 THEN "ErrRedisPortInvalid"
    ELSE IF r.DB < 0 THEN "ErrRedisDBInvalid"
    ELSE "nil"

GRPCConfigValidate(c) ==
    IF c.ListenPort <= 0 THEN "ErrGRPCPortInvalid"
    ELSE IF c.TLS.Enabled /\ c.TLS.CertPath = "" THEN "ErrTLSCertPathMissing"
    ELSE IF c.TLS.Enabled /\ c.TLS.KeyPath = "" THEN "ErrTLSKeyPathMissing"
    ELSE "nil"

TTLConfigValidate_AllowZero(c) ==
    IF c.Agent < 0 THEN "ErrTTLAgentInvalid"
    ELSE IF c.Relay < 0 THEN "ErrTTLRelayInvalid"
    ELSE "nil"

TTLConfigValidate(c) ==
    IF c.Agent <= 0 THEN "ErrTTLAgentInvalid"
    ELSE IF c.Relay <= 0 THEN "ErrTTLRelayInvalid"
    ELSE "nil"

BackendValidate(c) ==
    IF c.Type = RedisRegistryBackend
    THEN IF c.Redis = NilRedis THEN "ErrRedisConfigNil" ELSE RedisConfigValidate(c.Redis)
    ELSE IF c.Type \in {MemoryRegistryBackend, EtcdRegistryBackend, ConsulRegistryBackend}
    THEN "nil"
    ELSE "unknown registry backend"

ConfigValidate(c) ==
    IF BackendValidate(c) # "nil" THEN BackendValidate(c)
    ELSE IF GRPCConfigValidate(c) # "nil" THEN GRPCConfigValidate(c)
    ELSE TTLConfigValidate(c)

(* registry.New: the registry is built only from a non-nil, valid config *)
New(c) ==
    IF c = NilConfig THEN [built |-> FALSE, err |-> "ErrNilConfig"]
    ELSE IF ConfigValidate(c) # "nil" THEN [built |-> FALSE, err |-> ConfigValidate(c)]
    ELSE [built |-> TRUE, err |-> "nil"]

NoConfigCall(c) ==
    [config |-> c, op |-> "none", arg |-> "", kind |-> NoBackend, built |-> FALSE, err |-> "nil"]

----------------------------------------------------------------------------
(* The wire encoding: writeRESP and readRESP.  A byte is a one-character   *)
(* string, CR and LF being the two line-end bytes; a stream is a sequence  *)
(* of bytes.                                                               *)

CR == "CR"
LF == "LF"
CRLF == <<CR, LF>>
DigitChars == <<"0", "1", "2", "3", "4", "5", "6", "7", "8", "9">>
Base == Len(DigitChars)

(* strconv.Itoa *)
RECURSIVE Itoa(_)
Itoa(n) ==
    IF n < 0 THEN <<"-">> \o Itoa(0 - n)
    ELSE IF n < Base THEN <<DigitChars[n + 1]>>
    ELSE Itoa(n \div Base) \o <<DigitChars[(n % Base) + 1]>>

DigitValue(c) == (CHOOSE i \in 1..Base : DigitChars[i] = c) - 1
IsDigit(c) == \E i \in 1..Base : DigitChars[i] = c

RECURSIVE Digits(_, _)
Digits(ds, acc) == IF ds = <<>> THEN acc ELSE Digits(Tail(ds), acc * Base + DigitValue(Head(ds)))

(* strconv.Atoi: an optional sign, then one or more decimal digits *)
Atoi(line) ==
    LET signed == line # <<>> /\ Head(line) \in {"-", "+"}
        ds == IF signed THEN Tail(line) ELSE line
    IN  IF ds = <<>> \/ \E i \in 1..Len(ds) : ~IsDigit(ds[i]) THEN [ok |-> FALSE, v |-> 0]
        ELSE [ok |-> TRUE,
              v |-> IF signed /\ Head(line) = "-" THEN 0 - Digits(ds, 0) ELSE Digits(ds, 0)]

(* an encoder whose length prefix leaves the line-end bytes of the        *)
(* argument out                                                            *)
RECURSIVE writeArgs_TrimmedLength(_)
writeArgs_TrimmedLength(args) ==
    IF args = <<>> THEN <<>>
    ELSE <<"$">> \o Itoa(Len(SelectSeq(Head(args), LAMBDA c : c \notin {CR, LF}))) \o CRLF
         \o Head(args) \o CRLF \o writeArgs_TrimmedLength(Tail(args))

RECURSIVE writeArgs(_)
writeArgs(args) ==
    IF args = <<>> THEN <<>>
    ELSE <<"$">> \o Itoa(Len(Head(args))) \o CRLF \o Head(args) \o CRLF \o writeArgs(Tail(args))

writeRESP(args) == <<"*">> \o Itoa(Len(args)) \o CRLF \o writeArgs(args)

(* readLine: up to the first LF, the LF and one CR before it trimmed *)
readLine(buf) ==
    IF \A i \in 1..Len(buf) : buf[i] # LF THEN [ok |-> FALSE, line |-> <<>>, rest |-> <<>>]
    ELSE LET i == CHOOSE k \in 1..Len(buf) : buf[k] = LF /\ \A j \in 1..(k - 1) : buf[j] # LF
             raw == SubSeq(buf, 1, i - 1)
         IN  [ok |-> TRUE,
              line |-> IF raw # <<>> /\ raw[Len(raw)] = CR THEN SubSeq(raw, 1, Len(raw) - 1)
                       ELSE raw,
              rest |-> SubSeq(buf, i + 1, Len(buf))]

(* what readRESP returns: a value of kind t, or the error err, and the     *)
(* bytes it left unread                                                    *)
Value(t, v, rest) == [t |-> t, v |-> v, err |-> "nil", rest |-> rest]
ReadError(err, rest) == [t |-> "none", v |-> <<>>, err |-> err, rest |-> rest]

RECURSIVE readRESP(_)
RECURSIVE readElements(_, _, _)

readElements(buf, n, out) ==
    IF n = 0 THEN Value("array", out, buf)
    ELSE LET e == readRESP(buf)
         IN  IF e.err # "nil" THEN ReadError(e.err, e.rest)
             ELSE readElements(e.rest, n - 1, Append(out, [t |-> e.t, v |-> e.v]))

readRESP(buf) ==
    IF buf = <<>> THEN ReadError("io", <<>>)
    ELSE
    LET prefix == Head(buf)
        l == readLine(Tail(buf))
        n == Atoi(l.line)
    IN  IF prefix \notin {"+", "-", ":", "$", "*"} THEN ReadError("unknown prefix", Tail(buf))
        ELSE IF ~l.ok THEN ReadError("io", <<>>)
        ELSE IF prefix = "+" THEN Value("string", l.line, l.rest)
        ELSE IF prefix = "-" THEN ReadError("reply", l.rest)
        ELSE IF ~n.ok THEN ReadError("syntax", l.rest)
        ELSE IF prefix = ":" THEN Value("int", n.v, l.rest)
        ELSE IF n.v < 0 THEN Value("nil", <<>>, l.rest)
        ELSE IF prefix = "$"
             THEN IF Len(l.rest) < n.v + Len(CRLF) THEN ReadError("io", <<>>)
                  ELSE Value("bulk", SubSeq(l.rest, 1, n.v),
                             SubSeq(l.rest, n.v + Len(CRLF) + 1, Len(l.rest)))
        ELSE readElements(l.rest, n.v, <<>>)

NoBytes == [args |-> <<>>, stage |-> "none", bytes |-> <<>>, read |-> ReadError("nil", <<>>)]

----------------------------------------------------------------------------
(* Sequential specifications: one caller, every call runs to completion.   *)
(* Each operation takes the sets its inputs are drawn from.                *)

MaxFailAt == 13
Failures == {NoFailure} \cup [at : 1..MaxFailAt, kind : {"io", "reply"}]

NoCall ==
    [op |-> "none", rid |-> "", aid |-> "", ts |-> ZeroTime, at |-> ZeroTime,
     err |-> "nil", phase |-> "", steps |-> 0, fault |-> 0, ctx |-> "live",
     log |-> <<>>, peak |-> 0, relays |-> {}, placement |-> <<>>]

NoFrame ==
    [op |-> "none", rid |-> "", aid |-> "", ts |-> ZeroTime, stage |-> 0,
     pending |-> <<>>, sent |-> 0, queued |-> <<>>, reply |-> <<>>, saved |-> <<>>,
     done |-> FALSE, err |-> "nil", placement |-> <<>>, ctx |-> "live",
     addr |-> "", port |-> 0, relays |-> {}]

Init ==
    /\ variant \in Variants
    /\ cfg = NoAuth
    /\ reg = NoConfigCall(ValidConfig)
    /\ etcd = EmptyEtcd
    /\ db = EmptyDB
    /\ now = StartTime
    /\ conn = FALSE
    /\ socks = 0
    /\ deadline = NoDeadline
    /\ run = NotRunning
    /\ resp = NoBytes
    /\ last = NoCall
    /\ mu = NoCaller
    /\ pc = [p \in Callers |-> "idle"]
    /\ frame = [p \in Callers |-> NoFrame]
    /\ calls = 0
    /\ faults = 0

(* the call returns r: the store and connection change, the outcome is recorded *)
Completed(op, rid, aid, ts, F, r) ==
    /\ calls < MaxCalls
    /\ calls' = calls + 1
    /\ F.at # 0 => faults < MaxFaults
    /\ faults' = IF F.at # 0 THEN faults + 1 ELSE faults
    /\ db' = r.db
    /\ conn' = r.conn
    /\ socks' = r.open
    /\ last' = [op |-> op, rid |-> rid, aid |-> aid, ts |-> ts, at |-> now,
                err |-> r.err, phase |-> r.phase, steps |-> r.steps, fault |-> F.at,
                ctx |-> IF F.kind = "canceled" THEN "canceled" ELSE "live",
                log |-> r.log, peak |-> r.peak, relays |-> r.relays,
                placement |-> r.placement]
    /\ UNCHANGED <<variant, deadline, run, cfg, reg, resp, now, mu, pc, frame>>

Return(op, rid, aid, ts, F, r) ==
    Completed(op, rid, aid, ts, F, r) /\ UNCHANGED etcd

DoRegisterRelay(rids, times, fails) ==
    \E id \in rids, addr \in Addresses, port \in Ports, seen \in times, F \in fails :
        LET relay == MkRelay(id, addr, port, seen)
        IN  Return("RegisterRelay", id, "", seen, F,
                   IF variant = "goredis" THEN G_RegisterRelay(db, now, relay)
                   ELSE W_RegisterRelay(Exchange(db, conn), F, now, relay))

DoHeartbeatRelay(rids, times, fails) ==
    \E id \in rids, ts \in times, F \in fails :
        Return("HeartbeatRelay", id, "", ts, F,
               IF variant = "goredis" THEN G_HeartbeatRelay(db, now, id, ts)
               ELSE W_HeartbeatRelay(Exchange(db, conn), F, now, id, ts))

DoListRelays(fails) ==
    \E F \in fails :
        Return("ListRelays", "", "", ZeroTime, F,
               IF variant = "goredis" THEN G_ListRelays(db, now)
               ELSE W_ListRelays(Exchange(db, conn), F))

DoRemoveRelay(rids, fails) ==
    \E id \in rids, F \in fails :
        Return("RemoveRelay", id, "", ZeroTime, F,
               IF variant = "goredis" THEN G_RemoveRelay(db, id)
               ELSE W_RemoveRelay(Exchange(db, conn), F, id))

DoRegisterAgent(aids, rids, times, fails) ==
    \E aid \in aids, rid \in rids, hb \in times, F \in fails :
        Return("RegisterAgent", rid, aid, hb, F,
               IF variant = "goredis" THEN G_RegisterAgent(db, now, MkAgent(aid, hb), rid)
               ELSE W_RegisterAgent(Exchange(db, conn), F, now, MkAgent(aid, hb), rid))

DoHeartbeatAgent(aids, times, fails) ==
    \E aid \in aids, ts \in times, F \in fails :
        Return("HeartbeatAgent", "", aid, ts, F,
               IF variant = "goredis" THEN G_HeartbeatAgent(db, now, aid, ts)
               ELSE W_HeartbeatAgent(Exchange(db, conn), F, now, aid, ts))

DoGetAgentPlacement(aids, fails) ==
    \E aid \in aids, F \in fails :
        Return("GetAgentPlacement", "", aid, ZeroTime, F,
               IF variant = "goredis" THEN G_GetAgentPlacement(db, now, aid)
               ELSE W_GetAgentPlacement(Exchange(db, conn), F, aid))

(* the clock advances by one tick; the store drops the keys that expire *)
Tick ==
    /\ now < MaxTime
    /\ now' = now + 1
    /\ db' = Purge(db, now + 1)
    /\ UNCHANGED <<variant, deadline, run, cfg, reg, resp, socks, etcd, conn, last, mu, pc, frame, calls, faults>>

(* Spec: both adapters, valid ids, no transport failure *)
RegisterRelay == DoRegisterRelay(RelayIds, TimeInputs, {NoFailure})
HeartbeatRelay == DoHeartbeatRelay(RelayIds, TimeInputs, {NoFailure})
ListRelays == DoListRelays({NoFailure})
RemoveRelay == DoRemoveRelay(RelayIds, {NoFailure})
RegisterAgent == DoRegisterAgent(AgentIds, RelayIds, TimeInputs, {NoFailure})
HeartbeatAgent == DoHeartbeatAgent(AgentIds, TimeInputs, {NoFailure})
GetAgentPlacement == DoGetAgentPlacement(AgentIds, {NoFailure})

Next ==
    \/ RegisterRelay
    \/ HeartbeatRelay
    \/ ListRelays
    \/ RemoveRelay
    \/ RegisterAgent
    \/ HeartbeatAgent
    \/ GetAgentPlacement
    \/ Tick

Spec == Init /\ [][Next]_vars

(* SpecFail: the wire-protocol adapter with transport failures and error   *)
(* replies.  This adapter reads the clock only to stamp a record whose     *)
(* timestamp is zero, and the clock stands still here.                     *)
InitWire == Init /\ variant = "wire"
FailRelayIds == {"r1"}
FailTimeInputs == {ZeroTime, StartTime + 1}

RegisterRelayF == DoRegisterRelay(FailRelayIds, FailTimeInputs, Failures)
HeartbeatRelayF == DoHeartbeatRelay(FailRelayIds, FailTimeInputs, Failures)
ListRelaysF == DoListRelays(Failures)
RemoveRelayF == DoRemoveRelay(FailRelayIds, Failures)
RegisterAgentF == DoRegisterAgent(AgentIds, FailRelayIds, FailTimeInputs, Failures)
HeartbeatAgentF == DoHeartbeatAgent(AgentIds, FailTimeInputs, Failures)
GetAgentPlacementF == DoGetAgentPlacement(AgentIds, Failures)

NextFail ==
    \/ RegisterRelayF
    \/ HeartbeatRelayF
    \/ ListRelaysF
    \/ RemoveRelayF
    \/ RegisterAgentF
    \/ HeartbeatAgentF
    \/ GetAgentPlacementF

SpecFail == InitWire /\ [][NextFail]_vars

(* Close of the wire-protocol adapter: closes the connection it holds, if  *)
(* any, and returns the error of closing it.                               *)
W_Close_Unguarded(x, F) ==
    XRet([x EXCEPT !.conn = FALSE, !.n = 1, !.phase = "close",
                   !.err = IF ~x.conn \/ F.at = 1 THEN "io" ELSE "nil"], {}, <<>>)

W_Close(x, F) ==
    IF x.conn
    THEN XRet([x EXCEPT !.conn = FALSE, !.n = 1, !.phase = "close", !.open = @ - 1,
                        !.err = IF F.at = 1 THEN "io" ELSE "nil"], {}, <<>>)
    ELSE XRet(x, {}, <<>>)

(* SpecClose: SpecFail with Close, whose closing of the connection may fail *)
CloseFailures == {NoFailure, [at |-> 1, kind |-> "io"]}
CloseF ==
    \E F \in CloseFailures :
        Return("Close", "", "", ZeroTime, F, W_Close(Exchange(db, conn), F))

NextClose == NextFail \/ CloseF

SpecClose == InitWire /\ [][NextClose]_vars

(* The go-redis adapter's reads with a failing round trip: round trip F.at *)
(* of the call returns an error and the server executes none of its        *)
(* commands.  ListRelays makes up to three (SMEMBERS, the HGETALL          *)
(* pipeline, the cleanup pipeline), GetAgentPlacement up to two (HGETALL,  *)
(* the eviction pipeline); the result of the last of each is discarded.    *)
G_Failed(d, n) == [Fail(d, FALSE, "io") EXCEPT !.steps = n]

G_ListRelaysF(d, t, F) ==
    LET r == G_ListRelays(d, t)
        stale == {i \in d.relays : G_Stale(d, t, i)}
    IN  IF F.at = 1 THEN G_Failed(d, 1)
        ELSE IF d.relays = {} THEN [r EXCEPT !.steps = 1]
        ELSE IF F.at = 2 THEN G_Failed(d, 2)
        ELSE IF stale = {} THEN [r EXCEPT !.steps = 2]
        ELSE IF F.at = 3 THEN [Ret(d, FALSE, "nil", r.relays, <<>>) EXCEPT !.steps = 3]
        ELSE [r EXCEPT !.steps = 3]

G_GetAgentPlacementF(d, t, agentID, F) ==
    LET r == G_GetAgentPlacement(d, t, agentID)
    IN  IF F.at = 1 THEN G_Failed(d, 1)
        ELSE IF r.db = d THEN [r EXCEPT !.steps = 1]
        ELSE IF F.at = 2 THEN [Fail(d, FALSE, "ErrAgentNotPlaced") EXCEPT !.steps = 2]
        ELSE [r EXCEPT !.steps = 2]

(* SpecEvict: the go-redis adapter, whose reads may lose a round trip *)
ReadFailures == {NoFailure} \cup [at : 1..3, kind : {"io"}]

ListRelaysE ==
    \E F \in ReadFailures :
        Return("ListRelays", "", "", ZeroTime, F, G_ListRelaysF(db, now, F))

GetAgentPlacementE ==
    \E aid \in AgentIds, F \in ReadFailures :
        Return("GetAgentPlacement", "", aid, ZeroTime, F,
               G_GetAgentPlacementF(db, now, aid, F))

NextEvict ==
    \/ RegisterRelay
    \/ RegisterAgent
    \/ HeartbeatRelay
    \/ ListRelaysE
    \/ GetAgentPlacementE
    \/ Tick

InitEvict == Init /\ variant = "goredis"

SpecEvict == InitEvict /\ [][NextEvict]_vars

(* SpecHandshake: the wire-protocol adapter in every configuration of     *)
(* password and database index, with a write in a transaction, two reads   *)
(* and Close, and failures at the steps of the handshake and of the first  *)
(* command after it.                                                       *)
MaxHandshakeFailAt == 7
HandshakeFailures == {NoFailure} \cup [at : 1..MaxHandshakeFailAt, kind : {"io", "reply"}]

RegisterRelayH == DoRegisterRelay(FailRelayIds, {ZeroTime}, HandshakeFailures)
ListRelaysH == DoListRelays(HandshakeFailures)
GetAgentPlacementH == DoGetAgentPlacement(AgentIds, HandshakeFailures)

NextHandshake ==
    \/ RegisterRelayH
    \/ ListRelaysH
    \/ GetAgentPlacementH
    \/ CloseF

InitHandshake ==
    /\ variant = "wire"
    /\ cfg \in Configs
    /\ reg = NoConfigCall(ValidConfig)
    /\ etcd = EmptyEtcd
    /\ db = EmptyDB
    /\ now = StartTime
    /\ conn = FALSE
    /\ socks = 0
    /\ deadline = NoDeadline
    /\ run = NotRunning
    /\ resp = NoBytes
    /\ last = NoCall
    /\ mu = NoCaller
    /\ pc = [p \in Callers |-> "idle"]
    /\ frame = [p \in Callers |-> NoFrame]
    /\ calls = 0
    /\ faults = 0

SpecHandshake == InitHandshake /\ [][NextHandshake]_vars

(* SpecIds: both adapters, ids possibly empty *)
RelayIdInputs == {EmptyID, "r1"}
AgentIdInputs == {EmptyID, "a1"}

RegisterRelayI == DoRegisterRelay(RelayIdInputs, FailTimeInputs, {NoFailure})
HeartbeatRelayI == DoHeartbeatRelay(RelayIdInputs, FailTimeInputs, {NoFailure})
ListRelaysI == DoListRelays({NoFailure})
RemoveRelayI == DoRemoveRelay(RelayIdInputs, {NoFailure})
RegisterAgentI == DoRegisterAgent(AgentIdInputs, RelayIdInputs, FailTimeInputs, {NoFailure})
HeartbeatAgentI == DoHeartbeatAgent(AgentIdInputs, FailTimeInputs, {NoFailure})
GetAgentPlacementI == DoGetAgentPlacement(AgentIdInputs, {NoFailure})

NextIds ==
    \/ RegisterRelayI
    \/ HeartbeatRelayI
    \/ ListRelaysI
    \/ RemoveRelayI
    \/ RegisterAgentI
    \/ HeartbeatAgentI
    \/ GetAgentPlacementI
    \/ Tick

SpecIds == Init /\ [][NextIds]_vars

(* SpecEquiv: the wire-protocol adapter and the etcd-shaped backend given  *)
(* the same calls at the same clock, ids possibly empty, no transport      *)
(* failure.                                                                *)
EquivRelayIds == RelayIds \cup {EmptyID}

RegisterRelayQ ==
    \E id \in EquivRelayIds, addr \in Addresses, port \in Ports, seen \in FailTimeInputs :
        LET relay == MkRelay(id, addr, port, seen)
        IN  /\ Completed("RegisterRelay", id, "", seen, NoFailure,
                         W_RegisterRelay(Exchange(db, conn), NoFailure, now, relay))
            /\ etcd' = E_RegisterRelay(etcd, now, relay)

HeartbeatRelayQ ==
    \E id \in EquivRelayIds, ts \in FailTimeInputs :
        /\ Completed("HeartbeatRelay", id, "", ts, NoFailure,
                     W_HeartbeatRelay(Exchange(db, conn), NoFailure, now, id, ts))
        /\ etcd' = E_HeartbeatRelay(etcd, now, id, ts)

ListRelaysQ ==
    /\ Completed("ListRelays", "", "", ZeroTime, NoFailure,
                 W_ListRelays(Exchange(db, conn), NoFailure))
    /\ etcd' = E_ListRelays(etcd)

RemoveRelayQ ==
    \E id \in EquivRelayIds :
        /\ Completed("RemoveRelay", id, "", ZeroTime, NoFailure,
                     W_RemoveRelay(Exchange(db, conn), NoFailure, id))
        /\ etcd' = E_RemoveRelay(etcd, id)

RegisterAgentQ ==
    \E aid \in AgentIdInputs, rid \in EquivRelayIds, hb \in FailTimeInputs :
        /\ Completed("RegisterAgent", rid, aid, hb, NoFailure,
                     W_RegisterAgent(Exchange(db, conn), NoFailure, now, MkAgent(aid, hb), rid))
        /\ etcd' = E_RegisterAgent(etcd, now, MkAgent(aid, hb), rid)

HeartbeatAgentQ ==
    \E aid \in AgentIdInputs, ts \in FailTimeInputs :
        /\ Completed("HeartbeatAgent", "", aid, ts, NoFailure,
                     W_HeartbeatAgent(Exchange(db, conn), NoFailure, now, aid, ts))
        /\ etcd' = E_HeartbeatAgent(etcd, now, aid, ts)

GetAgentPlacementQ ==
    \E aid \in AgentIdInputs :
        /\ Completed("GetAgentPlacement", "", aid, ZeroTime, NoFailure,
                     W_GetAgentPlacement(Exchange(db, conn), NoFailure, aid))
        /\ etcd' = E_GetAgentPlacement(etcd, aid)

NextEquiv ==
    \/ RegisterRelayQ
    \/ HeartbeatRelayQ
    \/ ListRelaysQ
    \/ RemoveRelayQ
    \/ RegisterAgentQ
    \/ HeartbeatAgentQ
    \/ GetAgentPlacementQ
    \/ Tick

SpecEquiv == InitWire /\ [][NextEquiv]_vars

(* SpecCtx: calls may also be made with a context that is already          *)
(* cancelled.  Every method of the wire adapter starts by returning        *)
(* ctx.Err().  The go-redis adapter has no such test: it validates its     *)
(* arguments and hands the context to the client, which gives the          *)
(* context's error back before it sends anything.                          *)
AlreadyCanceled == [at |-> 0, kind |-> "canceled"]
Ops ==
    {"RegisterRelay", "HeartbeatRelay", "ListRelays", "RemoveRelay",
     "RegisterAgent", "HeartbeatAgent", "GetAgentPlacement"}
RelayOps == {"RegisterRelay", "HeartbeatRelay", "RemoveRelay", "RegisterAgent"}
AgentOps == {"RegisterAgent", "HeartbeatAgent", "GetAgentPlacement"}
TimedOps == {"RegisterRelay", "HeartbeatRelay", "RegisterAgent", "HeartbeatAgent"}

W_OnCanceled(x, op, rid, aid, ts) ==
    XRet(XFail(x, "context.Canceled"), {}, <<>>)

G_OnCanceled(d, op, rid, aid, ts) ==
    IF op \in {"HeartbeatRelay", "HeartbeatAgent"} /\ IsZero(ts)
    THEN Fail(d, FALSE, "ErrHeartbeatTimestampMissing")
    ELSE Fail(d, FALSE, "context.Canceled")

CanceledCall ==
    \E op \in Ops, r \in RelayIds, a \in AgentIds, t \in TimeInputs :
        LET rid == IF op \in RelayOps THEN r ELSE ""
            aid == IF op \in AgentOps THEN a ELSE ""
            ts == IF op \in TimedOps THEN t ELSE ZeroTime
        IN  Return(op, rid, aid, ts, AlreadyCanceled,
                   IF variant = "goredis" THEN G_OnCanceled(db, op, rid, aid, ts)
                   ELSE W_OnCanceled(Exchange(db, conn), op, rid, aid, ts))

NextCtx ==
    \/ Next
    \/ CanceledCall

SpecCtx == Init /\ [][NextCtx]_vars

----------------------------------------------------------------------------
(* Concurrent specifications: several callers share one Backend, and a     *)
(* call advances one exchange step at a time.  frame[p] is the activation  *)
(* of caller p's call: its arguments, how far it got (stage), the commands *)
(* it has still to exchange (pending), how many of the current sequence    *)
(* were written (sent), the commands the server queued since MULTI, and    *)
(* the last reply read.                                                    *)

MaxConcCalls == 3

Finish(f, err, pl) == [f EXCEPT !.done = TRUE, !.err = err, !.placement = pl]
Send(f, cmds) ==
    [f EXCEPT !.pending = cmds, !.sent = 0, !.queued = <<>>, !.stage = @ + 1]
SendMulti(f, cmds) ==
    Send(f, << Cmd("MULTI", "", "", <<>>) >> \o cmds \o << Cmd("EXEC", "", "", <<>>) >>)

(* the wire adapter's handlers, from one exchange to the next *)
W_Continue(f, t) ==
    CASE f.op = "RegisterRelay" ->
            IF f.stage = 0
            THEN IF f.rid = "" THEN Finish(f, "ErrRelayIDEmpty", <<>>)
                 ELSE LET relay == MkRelay(f.rid, f.addr, f.port,
                                           IF IsZero(f.ts) THEN t ELSE f.ts)
                      IN  SendMulti(f, << Cmd("SET", "relay", f.rid, Marshal(relay)),
                                          Cmd("SADD", "relays", f.rid, <<>>) >>)
            ELSE Finish(f, "nil", <<>>)
      [] f.op = "RegisterAgent" ->
            IF f.stage = 0
            THEN IF f.rid = "" THEN Finish(f, "ErrRelayIDEmpty", <<>>)
                 ELSE IF f.aid = "" THEN Finish(f, "ErrAgentIDEmpty", <<>>)
                 ELSE Send(f, << Cmd("GET", "relay", f.rid, <<>>) >>)
            ELSE IF f.stage = 1
            THEN IF f.reply = <<>> THEN Finish(f, "ErrRelayNotRegistered", <<>>)
                 ELSE LET agent == MkAgent(f.aid, IF IsZero(f.ts) THEN t ELSE f.ts)
                          placement == MkPlacement(f.aid, f.rid, agent.LastHeartbeat)
                      IN  SendMulti(f, << Cmd("SET", "agent", f.aid, Marshal(agent)),
                                          Cmd("SET", "placement", f.aid, Marshal(placement)),
                                          Cmd("SADD", "agents", f.aid, <<>>) >>)
            ELSE Finish(f, "nil", <<>>)
      [] f.op = "RemoveRelay" ->
            IF f.stage = 0
            THEN IF f.rid = "" THEN Finish(f, "ErrRelayIDEmpty", <<>>)
                 ELSE Send(f, << Cmd("EXISTS", "relay", f.rid, <<>>) >>)
            ELSE IF f.stage = 1
            THEN IF f.reply = 0 THEN Finish(f, "ErrRelayNotRegistered", <<>>)
                 ELSE SendMulti(f, RemoveRelayCmds(EmptyDB, f.rid))
            ELSE Finish(f, "nil", <<>>)
      [] f.op = "GetAgentPlacement" ->
            IF f.stage = 0
            THEN IF f.aid = "" THEN Finish(f, "ErrAgentIDEmpty", <<>>)
                 ELSE Send(f, << Cmd("GET", "placement", f.aid, <<>>) >>)
            ELSE IF f.reply = <<>> THEN Finish(f, "ErrAgentNotRegistered", <<>>)
                 ELSE Finish(f, "nil", << Unmarshal(f.reply[1]) >>)
      [] f.op = "HeartbeatRelay" ->
            IF f.stage = 0
            THEN IF f.rid = "" THEN Finish(f, "ErrRelayIDEmpty", <<>>)
                 ELSE Send([f EXCEPT !.ts = IF IsZero(f.ts) THEN t ELSE f.ts],
                           << Cmd("GET", "relay", f.rid, <<>>) >>)
            ELSE IF f.stage = 1
            THEN IF f.reply = <<>> THEN Finish(f, "ErrRelayNotRegistered", <<>>)
                 ELSE LET relay == [Unmarshal(f.reply[1]) EXCEPT !.LastSeen = f.ts]
                          stamped == IF IsZero(relay.LastSeen)
                                     THEN [relay EXCEPT !.LastSeen = t] ELSE relay
                      IN  SendMulti(f, << Cmd("SET", "relay", relay.ID, Marshal(stamped)),
                                          Cmd("SADD", "relays", relay.ID, <<>>) >>)
            ELSE Finish(f, "nil", <<>>)
      [] f.op = "ListRelays" ->
            IF f.stage = 0
            THEN Send(f, << Cmd("SMEMBERS", "relays", <<>>, <<>>) >>)
            ELSE IF f.stage = 1
            THEN IF f.reply = {} THEN Finish(f, "nil", <<>>)
                 ELSE Send([f EXCEPT !.saved = <<f.reply>>],
                           << Cmd("MGET", "relay", f.reply, <<>>) >>)
            ELSE LET ids == f.saved[1]
                     staleIDs == IF f.stage = 2 THEN {i \in ids : f.reply[i] = <<>>} ELSE ids
                     f1 == IF f.stage = 2
                           THEN [f EXCEPT !.relays = {Unmarshal(f.reply[i][1]) :
                                                       i \in ids \ staleIDs}]
                           ELSE f
                 IN  IF staleIDs = {} THEN Finish(f1, "nil", <<>>)
                     ELSE LET id == CHOOSE i \in staleIDs : TRUE
                          IN  Send([f1 EXCEPT !.saved = <<staleIDs \ {id}>>],
                                   << Cmd("SREM", "relays", id, <<>>) >>)
      [] f.op = "HeartbeatAgent" ->
            IF f.stage = 0
            THEN IF f.aid = "" THEN Finish(f, "ErrAgentIDEmpty", <<>>)
                 ELSE Send(f, << Cmd("GET", "agent", f.aid, <<>>) >>)
            ELSE IF f.stage = 1
            THEN IF f.reply = <<>> THEN Finish(f, "ErrAgentNotRegistered", <<>>)
                 ELSE LET ts1 == IF IsZero(f.ts) THEN t ELSE f.ts
                          agent == [Unmarshal(f.reply[1]) EXCEPT !.LastHeartbeat = ts1]
                      IN  Send([f EXCEPT !.ts = ts1, !.saved = <<agent>>],
                               << Cmd("GET", "placement", f.aid, <<>>) >>)
            ELSE IF f.stage = 2
            THEN IF f.reply = <<>> THEN Finish(f, "ErrAgentNotRegistered", <<>>)
                 ELSE LET placement == [Unmarshal(f.reply[1]) EXCEPT !.UpdatedAt = f.ts]
                      IN  SendMulti(f, << Cmd("SET", "agent", f.aid, Marshal(f.saved[1])),
                                          Cmd("SET", "placement", f.aid, Marshal(placement)) >>)
            ELSE Finish(f, "nil", <<>>)

(* the go-redis adapter's commands: HSET merges fields into the hash,      *)
(* PEXPIRE arms the key's expiry, HGETALL replies the hash or nothing      *)
BlankHash(ns) ==
    CASE ns = "relay" -> BlankRelayHash
      [] ns = "agent" -> BlankAgentHash
      [] ns = "placement" -> BlankPlacementHash

G_ServerExec(d, cmd, t) ==
    CASE cmd.op = "HSET" ->
            LET h == Hash(d, cmd.key, cmd.id, BlankHash(cmd.key))
            IN  [db |-> Set(d, cmd.key, cmd.id,
                            [k \in DOMAIN h |-> IF k \in DOMAIN cmd.val THEN cmd.val[k]
                                                ELSE h[k]]),
                 reply |-> <<>>]
      [] cmd.op = "PEXPIRE" -> [db |-> PExpire(d, cmd.key, cmd.id, cmd.val, t), reply |-> <<>>]
      [] cmd.op = "HGETALL" -> [db |-> d,
                                reply |-> IF Exists(d, cmd.key, cmd.id)
                                          THEN <<d[cmd.key][cmd.id]>> ELSE <<>>]
      [] OTHER -> [db |-> ServerExec(d, cmd).db, reply |-> <<>>]

(* the go-redis adapter's handlers, from one round trip to the next *)
G_Continue(f, t) ==
    CASE f.op = "RegisterAgent" ->
            IF f.stage = 0
            THEN Send(f, << Cmd("HSET", "agent", f.aid,
                                [ID |-> f.aid, LastHeartbeatUnixMs |-> UnixMilli(t)]),
                            Cmd("PEXPIRE", "agent", f.aid, AgentTTLMs),
                            Cmd("HSET", "placement", f.aid,
                                [AgentID |-> f.aid, RelayID |-> f.rid,
                                 UpdatedAtUnixMs |-> UnixMilli(t)]),
                            Cmd("PEXPIRE", "placement", f.aid, AgentTTLMs),
                            Cmd("SADD", "agents", f.aid, <<>>) >>)
            ELSE Finish(f, "nil", <<>>)
      [] f.op = "GetAgentPlacement" ->
            IF f.stage = 0
            THEN Send(f, << Cmd("HGETALL", "placement", f.aid, <<>>) >>)
            ELSE IF f.stage = 1
            THEN IF f.reply = <<>> THEN Finish(f, "ErrAgentNotPlaced", <<>>)
                 ELSE LET placement == parsePlacement(f.reply[1])
                      IN  IF IsZero(placement.UpdatedAt) \/ t - placement.UpdatedAt > AgentTTL
                          THEN Send(f, << Cmd("DEL", "agent", f.aid, <<>>),
                                          Cmd("DEL", "placement", f.aid, <<>>),
                                          Cmd("SREM", "agents", f.aid, <<>>) >>)
                          ELSE Finish(f, "nil", <<placement>>)
            ELSE Finish(f, "ErrAgentNotPlaced", <<>>)
      [] f.op = "HeartbeatAgent" ->
            IF f.stage = 0
            THEN IF IsZero(f.ts) THEN Finish(f, "ErrHeartbeatTimestampMissing", <<>>)
                 ELSE Send(f, << Cmd("HGETALL", "placement", f.aid, <<>>) >>)
            ELSE IF f.stage = 1
            THEN IF f.reply = <<>> THEN Finish(f, "ErrAgentNotPlaced", <<>>)
                 ELSE LET placementData == f.reply[1]
                      IN  IF placementData.AgentID = "" \/ placementData.RelayID = ""
                          THEN Finish(f, "ErrAgentNotPlaced", <<>>)
                          ELSE Send(f, << Cmd("HSET", "agent", f.aid,
                                              [LastHeartbeatUnixMs |-> UnixMilli(f.ts)]),
                                          Cmd("PEXPIRE", "agent", f.aid, AgentTTLMs),
                                          Cmd("HSET", "placement", f.aid,
                                              [AgentID |-> placementData.AgentID,
                                               RelayID |-> placementData.RelayID,
                                               UpdatedAtUnixMs |-> UnixMilli(t)]),
                                          Cmd("PEXPIRE", "placement", f.aid, AgentTTLMs),
                                          Cmd("SADD", "agents", f.aid, <<>>) >>)
            ELSE Finish(f, "nil", <<>>)

(* caller p goes on with activation f: it returns, or starts an exchange *)
Advance(p, f) ==
    IF f.done
    THEN /\ pc' = [pc EXCEPT ![p] = "idle"]
         /\ frame' = [frame EXCEPT ![p] = NoFrame]
         /\ last' = [op |-> f.op, rid |-> f.rid, aid |-> f.aid, ts |-> f.ts, at |-> now,
                     err |-> f.err, phase |-> "", steps |-> 0, fault |-> 0,
                     ctx |-> f.ctx, log |-> <<>>, peak |-> socks, relays |-> f.relays,
                     placement |-> f.placement]
    ELSE /\ pc' = [pc EXCEPT ![p] = IF variant = "wire" THEN "lock" ELSE "cmd"]
         /\ frame' = [frame EXCEPT ![p] = f]
         /\ UNCHANGED last

Continue(f, t) == IF variant = "wire" THEN W_Continue(f, t) ELSE G_Continue(f, t)

(* caller p invokes the call of activation f, max bounding the number of   *)
(* calls of a behaviour                                                    *)
StartFrame(p, f, max) ==
    /\ pc[p] = "idle"
    /\ calls < max
    /\ calls' = calls + 1
    /\ Advance(p, Continue(f, now))
    /\ UNCHANGED <<variant, deadline, run, cfg, reg, resp, socks, etcd, db, now, conn, mu, faults>>

StartCallWithin(p, op, rid, aid, ts, max) ==
    StartFrame(p, [NoFrame EXCEPT !.op = op, !.rid = rid, !.aid = aid, !.ts = ts,
                                  !.addr = CHOOSE a \in Addresses : TRUE,
                                  !.port = CHOOSE n \in Ports : TRUE], max)

StartCall(p, op, rid, aid, ts) == StartCallWithin(p, op, rid, aid, ts, MaxConcCalls)

(* b.mu.Lock() without waiting for the holder *)
Lock_NoExclusion(p) ==
    mu' = p

(* b.mu.Lock(): blocks until the mutex is free *)
Lock(p) ==
    mu = NoCaller /\ mu' = p

(* exec / execMulti: take the lock, make sure of the connection *)
W_Lock(p) ==
    /\ pc[p] = "lock"
    /\ Lock(p)
    /\ conn' = TRUE
    /\ socks' = IF conn THEN socks ELSE socks + 1
    /\ pc' = [pc EXCEPT ![p] = "write"]
    /\ UNCHANGED <<variant, deadline, run, cfg, reg, resp, etcd, db, now, last, frame, calls, faults>>

(* writeRESP of the next command of the sequence *)
W_Write(p) ==
    /\ pc[p] = "write"
    /\ frame' = [frame EXCEPT ![p].sent = @ + 1]
    /\ pc' = [pc EXCEPT ![p] = "read"]
    /\ UNCHANGED <<variant, deadline, run, cfg, reg, resp, socks, etcd, db, now, conn, last, mu, calls, faults>>

(* readRESP of its reply: the server has queued or executed the command *)
W_Read(p) ==
    /\ pc[p] = "read"
    /\ LET f == frame[p]
           c == Head(f.pending)
           inTx == f.pending[Len(f.pending)].op = "EXEC" /\ c.op \notin {"MULTI", "EXEC"}
           r == IF c.op = "MULTI" THEN [db |-> db, reply |-> "OK"]
                ELSE IF c.op = "EXEC" THEN [db |-> ServerExecAll(db, f.queued), reply |-> "OK"]
                ELSE IF inTx THEN [db |-> db, reply |-> "QUEUED"]
                ELSE ServerExec(db, c)
       IN  /\ db' = r.db
           /\ frame' = [frame EXCEPT ![p] =
                           [f EXCEPT !.pending = Tail(f.pending), !.reply = r.reply,
                                     !.queued = IF inTx THEN Append(@, c) ELSE @]]
           /\ pc' = [pc EXCEPT ![p] = IF Len(f.pending) = 1 THEN "unlock" ELSE "write"]
    /\ UNCHANGED <<variant, deadline, run, cfg, reg, resp, socks, etcd, now, conn, last, mu, calls, faults>>

(* the deferred b.mu.Unlock(), and the handler up to its next exchange *)
W_Unlock(p) ==
    /\ pc[p] = "unlock"
    /\ mu' = NoCaller
    /\ Advance(p, W_Continue(frame[p], now))
    /\ UNCHANGED <<variant, deadline, run, cfg, reg, resp, socks, etcd, db, now, conn, calls, faults>>

(* the server executes the next command of caller p's pipeline *)
G_Command(p) ==
    /\ pc[p] = "cmd"
    /\ LET f == frame[p]
           r == G_ServerExec(db, Head(f.pending), now)
           f1 == [f EXCEPT !.pending = Tail(f.pending), !.reply = r.reply, !.sent = @ + 1]
       IN  /\ db' = r.db
           /\ IF Len(f.pending) = 1 THEN Advance(p, G_Continue(f1, now))
              ELSE /\ frame' = [frame EXCEPT ![p] = f1]
                   /\ UNCHANGED <<pc, last>>
    /\ UNCHANGED <<variant, deadline, run, cfg, reg, resp, socks, etcd, now, conn, mu, calls, faults>>

ConcTimeInputs == {ZeroTime, StartTime + 1}

CRegisterRelay ==
    \E p \in Callers, rid \in FailRelayIds : StartCall(p, "RegisterRelay", rid, "", ZeroTime)
CRegisterAgent ==
    \E p \in Callers, aid \in AgentIds, rid \in FailRelayIds :
        StartCall(p, "RegisterAgent", rid, aid, ZeroTime)
CGetAgentPlacement ==
    \E p \in Callers, aid \in AgentIds : StartCall(p, "GetAgentPlacement", "", aid, ZeroTime)
CHeartbeatAgent ==
    \E p \in Callers, aid \in AgentIds, ts \in ConcTimeInputs :
        StartCall(p, "HeartbeatAgent", "", aid, ts)
Lock_ == \E p \in Callers : W_Lock(p)
Write == \E p \in Callers : W_Write(p)
Read == \E p \in Callers : W_Read(p)
Unlock == \E p \in Callers : W_Unlock(p)
Command == \E p \in Callers : G_Command(p)

NextWire ==
    \/ CRegisterRelay
    \/ CRegisterAgent
    \/ CGetAgentPlacement
    \/ CHeartbeatAgent
    \/ Lock_
    \/ Write
    \/ Read
    \/ Unlock
    \/ Tick

SpecWire == InitWire /\ [][NextWire]_vars

(* SpecWireRemove: the wire-protocol adapter with two callers that         *)
(* register relays, register agents and remove relays                      *)
CRemoveRelay ==
    \E p \in Callers, rid \in FailRelayIds : StartCall(p, "RemoveRelay", rid, "", ZeroTime)

NextWireRemove ==
    \/ CRegisterRelay
    \/ CRegisterAgent
    \/ CRemoveRelay
    \/ Lock_
    \/ Write
    \/ Read
    \/ Unlock

SpecWireRemove == InitWire /\ [][NextWireRemove]_vars

(* SpecWireCancel: a caller's context (one made by context.WithCancel, so  *)
(* without a deadline) may be cancelled while its call is writing a        *)
(* command or waiting for a reply.  exec and execMulti look at the context *)
(* only for its deadline, which they set on the connection; nothing in     *)
(* them waits on ctx.Done().  A context with a deadline makes the blocked  *)
(* read or write fail, which SpecFail covers as a transport failure.       *)
CancelContext(p) ==
    /\ pc[p] \in {"write", "read"}
    /\ frame[p].ctx = "live"
    /\ frame' = [frame EXCEPT ![p].ctx = "canceled"]
    /\ UNCHANGED <<variant, deadline, run, cfg, reg, resp, socks, etcd, db, now, conn, last, mu, pc, calls, faults>>

Cancel == \E p \in Callers : CancelContext(p)

NextWireCancel ==
    \/ NextWire
    \/ Cancel

SpecWireCancel == InitWire /\ [][NextWireCancel]_vars

InitGoRedis == Init /\ variant = "goredis"

NextGoRedis ==
    \/ CRegisterAgent
    \/ CGetAgentPlacement
    \/ CHeartbeatAgent
    \/ Command
    \/ Tick

SpecGoRedis == InitGoRedis /\ [][NextGoRedis]_vars

----------------------------------------------------------------------------
(* The records as the running adapter reads them back from the store.      *)

RelayView(d, r) ==
    IF variant = "goredis" THEN parseRelay(d.relay[r]) ELSE Unmarshal(d.relay[r])
PlacementView(d, a) ==
    IF variant = "goredis" THEN parsePlacement(d.placement[a]) ELSE Unmarshal(d.placement[a])
AgentView(d, a) ==
    IF variant = "goredis"
    THEN MkAgent(d.agent[a].ID, FromUnixMilli(d.agent[a].LastHeartbeatUnixMs))
    ELSE Unmarshal(d.agent[a])

(* live in the sense of the contract: stored and within its TTL *)
RelayLive(d, t, r) == Exists(d, "relay", r) /\ t - RelayView(d, r).LastSeen <= RelayTTL
PlacementLive(d, t, a) ==
    Exists(d, "placement", a) /\ t - PlacementView(d, a).UpdatedAt <= AgentTTL
AgentGone(d, a) ==
    ~Exists(d, "agent", a) /\ ~Exists(d, "placement", a) /\ a \notin d.agents

(* the not-found-class error for an agent: the go-redis adapter returns    *)
(* ErrAgentNotPlaced, the wire adapter names it ErrAgentNotRegistered      *)
AgentNotPlaced(err) == err \in {"ErrAgentNotPlaced", "ErrAgentNotRegistered"}

ListedIDs == {rel.ID : rel \in last.relays}

(* what the read operations can report of a store: the records as they    *)
(* are read back, and the two indexes                                      *)
Observable(d) ==
    [relay |-> [r \in DOMAIN d.relay |-> RelayView(d, r)],
     agent |-> [a \in DOMAIN d.agent |-> AgentView(d, a)],
     placement |-> [a \in DOMAIN d.placement |-> PlacementView(d, a)],
     relays |-> d.relays, agents |-> d.agents]

(* this step is a completed call of operation op *)
Called(op) == calls' = calls + 1 /\ last'.op = op

----------------------------------------------------------------------------
(* C1: ListRelays returns a relay if and only if it is stored (registered  *)
(* and not removed) and now - last_seen <= relay TTL at the time of the    *)
(* call.                                                                   *)
C1_ListRelaysIffLive ==
    [][Called("ListRelays") =>
        \A r \in RelayIds : (r \in ListedIDs') <=> RelayLive(db, now, r)]_vars

(* C2: GetAgentPlacement returns a placement only while now - updated_at   *)
(* <= agent TTL; when the stored placement is past the TTL the call        *)
(* reports agent-not-placed and leaves no agent record, placement record   *)
(* or index membership of that agent behind.                               *)
C2_GetAgentPlacementWithinTTL ==
    [][Called("GetAgentPlacement") =>
        LET a == last'.aid
        IN  /\ last'.err = "nil" => PlacementLive(db, now, a)
            /\ Exists(db, "placement", a) /\ ~PlacementLive(db, now, a)
                  => AgentNotPlaced(last'.err) /\ last'.placement = <<>>
                     /\ AgentGone(db', a)]_vars

(* C3: every index member that a ListRelays call finds missing or past its *)
(* TTL has left the relay index when the call returns and is not in the    *)
(* returned list.                                                          *)
C3_ListRelaysEvictsStale ==
    [][Called("ListRelays") =>
        \A r \in db.relays :
            ~RelayLive(db, now, r) => r \notin db'.relays /\ r \notin ListedIDs']_vars

(* C4: a relay or agent past its TTL is treated like an absent one:        *)
(* HeartbeatRelay and RemoveRelay fail with relay-not-registered,          *)
(* HeartbeatAgent fails with agent-not-placed, and the record is not       *)
(* revived.  (Calls with a zero timestamp are left out: they may be        *)
(* rejected for the timestamp first.)                                      *)
C4_ExpiredIsAbsent ==
    [][/\ \/ Called("HeartbeatRelay") /\ last'.ts # ZeroTime /\ ~RelayLive(db, now, last'.rid)
          \/ Called("RemoveRelay") /\ ~RelayLive(db, now, last'.rid)
          => last'.err = "ErrRelayNotRegistered" /\ ~RelayLive(db', now, last'.rid)
       /\ Called("HeartbeatAgent") /\ last'.ts # ZeroTime /\ ~PlacementLive(db, now, last'.aid)
          => AgentNotPlaced(last'.err) /\ ~PlacementLive(db', now, last'.aid)]_vars

(* C5: RemoveRelay and ListRelays leave the agent records, the placement   *)
(* records and the agent index unchanged, and GetAgentPlacement returns a  *)
(* placement that is within the agent TTL whether or not the relay it      *)
(* references is still stored.                                             *)
C5_NoCascade ==
    [][/\ (Called("RemoveRelay") \/ Called("ListRelays"))
          => db'.agent = db.agent /\ db'.placement = db.placement /\ db'.agents = db.agents
       /\ Called("GetAgentPlacement") /\ PlacementLive(db, now, last'.aid)
          => last'.err = "nil" /\ last'.placement = <<PlacementView(db, last'.aid)>>]_vars

(* a placement was returned although its relay had been removed *)
C5_Witness ==
    /\ variant = "wire"
    /\ last.op = "GetAgentPlacement" /\ last.err = "nil"
    /\ Len(last.placement) = 1
    /\ ~Exists(db, "relay", last.placement[1].RelayID)
    /\ last.placement[1].RelayID \notin db.relays

(* C8: after a successful HeartbeatAgent(a, ts) with non-zero ts the       *)
(* agent's last_heartbeat and the placement's updated_at both equal ts and *)
(* the placement's agent_id and relay_id are unchanged.                    *)
C8_HeartbeatAgentSetsBoth ==
    [][Called("HeartbeatAgent") /\ last'.err = "nil" /\ last'.ts # ZeroTime =>
        LET a == last'.aid
        IN  /\ Exists(db', "agent", a) /\ Exists(db', "placement", a)
            /\ AgentView(db', a).LastHeartbeat = last'.ts
            /\ PlacementView(db', a).UpdatedAt = last'.ts
            /\ PlacementView(db', a).AgentID = PlacementView(db, a).AgentID
            /\ PlacementView(db', a).RelayID = PlacementView(db, a).RelayID]_vars

FailedBeforeCommit(l) ==
    l.err \in {"io", "reply"} /\ l.phase \in {"MULTI", "QUEUE", "EXEC write"}

C6_RegisterAgentAllOrNothing ==
    [][Called("RegisterAgent") /\ FailedBeforeCommit(last') =>
        db' = db /\ conn' = FALSE]_vars

(* RegisterAgent failed while its commands were being queued *)
C6_Witness ==
    /\ last.op = "RegisterAgent" /\ last.err = "io" /\ last.phase = "QUEUE"
    /\ Exists(db, "relay", last.rid) /\ ~Exists(db, "agent", last.aid)

(* C10: at most one caller at a time is between the writing of the first   *)
(* command of a sequence and the reading of its last reply, and that       *)
(* caller holds the mutex.                                                 *)
InExchange(p) == pc[p] = "read" \/ (pc[p] = "write" /\ frame[p].sent > 0)

C10_OneExchangeAtATime ==
    \A p \in Callers :
        InExchange(p) => mu = p /\ \A q \in Callers \ {p} : ~InExchange(q)

(* a caller is in the middle of a MULTI...EXEC batch while another waits   *)
(* for the mutex                                                           *)
C10_Witness ==
    \E p \in Callers, q \in Callers :
        /\ p # q
        /\ pc[p] = "write" /\ frame[p].sent > 1
        /\ pc[q] = "lock"

(* C7: while a RegisterAgent is in progress, the agent's record and its    *)
(* placement are stored together or not at all, so that no reader finds    *)
(* one without the other.                                                  *)
C7_AgentAndPlacementTogether ==
    \A p \in Callers :
        frame[p].op = "RegisterAgent" =>
            (Exists(db, "agent", frame[p].aid) <=> Exists(db, "placement", frame[p].aid))

(* C11: a call that returns a dial, write, read or reply error leaves the  *)
(* Backend without a connection, made no I/O step after the failing one    *)
(* (nothing is sent again within the call), and a call that finds no       *)
(* connection dials before anything else.                                  *)
TransportError(err) == err \in {"io", "reply"}

C12_CanceledContextDoesNothing ==
    [][calls' = calls + 1 /\ last'.ctx = "canceled" =>
        /\ last'.err = "context.Canceled"
        /\ last'.steps = 0
        /\ db' = db /\ conn' = conn]_vars

(* C13: a call whose context was cancelled while it was writing a command  *)
(* or waiting for a reply returns a cancellation or deadline error with    *)
(* the connection torn down, and from the cancellation on none of its      *)
(* steps changes the store.                                                *)
C13_CancelAbortsInFlightCall ==
    [][/\ last' # last /\ last'.ctx = "canceled" =>
            /\ last'.err \in {"context.Canceled", "context.DeadlineExceeded", "io"}
            /\ ~conn'
       /\ \A p \in Callers :
            frame[p].ctx = "canceled" /\ pc'[p] # pc[p] => db' = db]_vars

(* C14: RegisterRelay with an empty relay id fails with the empty-id error *)
(* and leaves the relay records and the relay index as they were.          *)
C14_RegisterRelayEmptyID ==
    [][Called("RegisterRelay") /\ last'.rid = EmptyID =>
        /\ last'.err = "ErrRelayIDEmpty"
        /\ db'.relay = db.relay /\ db'.relays = db.relays]_vars

(* C15: RegisterAgent with an empty relay id fails with relay-id-empty,    *)
(* with an empty agent id (and a relay id) with agent-id-empty, and in     *)
(* both cases writes nothing.                                              *)
C15_RegisterAgentEmptyIDs ==
    [][Called("RegisterAgent") /\ (last'.rid = EmptyID \/ last'.aid = EmptyID) =>
        /\ last'.rid = EmptyID => last'.err = "ErrRelayIDEmpty"
        /\ last'.rid # EmptyID => last'.err = "ErrAgentIDEmpty"
        /\ db' = db]_vars

(* C17: HeartbeatRelay with an empty relay id fails with relay-id-empty,   *)
(* in the go-redis adapter a zero timestamp fails with                     *)
(* heartbeat-timestamp-missing, and in both cases nothing is written.      *)
C17_HeartbeatRelayValidation ==
    [][Called("HeartbeatRelay") =>
        /\ last'.rid = EmptyID /\ (variant = "wire" \/ last'.ts # ZeroTime)
              => last'.err = "ErrRelayIDEmpty" /\ db' = db
        /\ variant = "goredis" /\ last'.ts = ZeroTime
              => last'.err = "ErrHeartbeatTimestampMissing" /\ db' = db]_vars

(* C16: RemoveRelay of a stored relay deletes its record and its index     *)
(* membership; RemoveRelay of a relay of which the store holds nothing     *)
(* fails with relay-not-registered and changes nothing.                    *)
C16_RemoveRelay ==
    [][Called("RemoveRelay") =>
        LET r == last'.rid
        IN  /\ Exists(db, "relay", r) =>
                  last'.err = "nil" /\ ~Exists(db', "relay", r) /\ r \notin db'.relays
            /\ ~Exists(db, "relay", r) /\ r \notin db.relays =>
                  last'.err = "ErrRelayNotRegistered" /\ db' = db]_vars

(* C18: HeartbeatRelay (with a timestamp the adapter accepts) for a relay  *)
(* of which the store holds nothing fails with relay-not-registered and    *)
(* changes nothing, and ListRelays never returns a relay under the empty   *)
(* id.                                                                     *)
C18_HeartbeatUnknownRelay ==
    [][/\ Called("HeartbeatRelay") /\ (variant = "wire" \/ last'.ts # ZeroTime)
          /\ ~Exists(db, "relay", last'.rid) /\ last'.rid \notin db.relays
          => last'.err = "ErrRelayNotRegistered" /\ db' = db
       /\ Called("ListRelays") => EmptyID \notin ListedIDs']_vars

(* C19: RegisterRelay stores the supplied id, address and port, puts the   *)
(* id in the index and sets last_seen to the supplied value, or to the     *)
(* current time when none is supplied; a ListRelays that follows at once   *)
(* returns the relay, with that last_seen, exactly when that last_seen is  *)
(* within the TTL.                                                         *)
C19_RegisterRelayStores ==
    [][/\ Called("RegisterRelay") =>
            LET r == last'.rid
                seen == IF last'.ts = ZeroTime THEN now ELSE last'.ts
            IN  /\ last'.err = "nil"
                /\ Exists(db', "relay", r) /\ r \in db'.relays
                /\ RelayView(db', r).ID = r
                /\ RelayView(db', r).Address \in Addresses
                /\ RelayView(db', r).GRPCPort \in Ports
                /\ RelayView(db', r).LastSeen = seen
       /\ Called("ListRelays") /\ last.op = "RegisterRelay" /\ last.at = now =>
            LET r == last.rid
                seen == IF last.ts = ZeroTime THEN last.at ELSE last.ts
            IN  /\ r \in ListedIDs' <=> now - seen <= RelayTTL
                /\ \A rel \in last'.relays : rel.ID = r => rel.LastSeen = seen]_vars

(* C20: a HeartbeatRelay or HeartbeatAgent that repeats the call before it *)
(* (same id, same non-zero timestamp, which succeeded), the record still   *)
(* being stored, changes nothing that can be read back.                    *)
C20_HeartbeatIdempotent ==
    [][/\ \/ Called("HeartbeatRelay") /\ Exists(db, "relay", last'.rid)
          \/ Called("HeartbeatAgent") /\ Exists(db, "placement", last'.aid)
                /\ Exists(db, "agent", last'.aid)
       /\ last.op = last'.op /\ last.rid = last'.rid /\ last.aid = last'.aid
       /\ last.ts = last'.ts /\ last'.ts # ZeroTime /\ last.err = "nil"
       => last'.err = "nil" /\ Observable(db') = Observable(db)]_vars

IndexCoversRecords(d) ==
    /\ DOMAIN d.relay \subseteq d.relays
    /\ DOMAIN d.agent \subseteq d.agents

C22_IndexCoversRecords ==
    (\A p \in Callers : pc[p] = "idle") => IndexCoversRecords(db)

(* caller p took this step *)
Moved(p) == pc'[p] # pc[p] \/ frame'[p].sent # frame[p].sent

(* C23: a placement record for agent a comes into existence only in a step *)
(* of RegisterAgent(a, .): of a call that returns no error (or whose       *)
(* committed transaction lost its reply), or, with several callers, in a   *)
(* command of such a call.  No other operation creates a placement.        *)
C23_OnlyRegisterAgentCreatesPlacement ==
    [][\A a \in AgentIdInputs :
        ~Exists(db, "placement", a) /\ Exists(db', "placement", a) =>
            \/ /\ Called("RegisterAgent") /\ last'.aid = a
               /\ last'.err = "nil" \/ last'.phase = "EXEC read"
            \/ \E p \in Callers :
                  Moved(p) /\ frame[p].op = "RegisterAgent" /\ frame[p].aid = a]_vars

(* C24: a call in which a dial, write or read failed, or an error reply    *)
(* was read, returns that error.                                           *)
C24_ErrorsAreReturned ==
    [][calls' = calls + 1 /\ last'.fault # 0 /\ last'.steps >= last'.fault =>
        TransportError(last'.err)]_vars

(* what a call's log must show after a dial, for configuration c *)
IsPrefix(a, b) == Len(a) <= Len(b) /\ a = SubSeq(b, 1, Len(a))
ExpectedHandshake(c) ==
    (IF c.Password THEN <<"AUTH", "AUTH reply">> ELSE <<>>)
        \o (IF c.DB # 0 THEN <<"SELECT", "SELECT reply">> ELSE <<>>)
Dials(log) == {i \in 1..Len(log) : log[i] = "dial"}
(* the part of the log that belongs to the connection dialled at i (i = 0: *)
(* the connection the call found open)                                     *)
Segment(log, i) ==
    LET later == {j \in Dials(log) : j > i}
        end == IF later = {} THEN Len(log)
               ELSE (CHOOSE j \in later : \A k \in later : j <= k) - 1
    IN  SubSeq(log, i + 1, end)

(* C25: in every call of the wire-protocol adapter, what is written on a   *)
(* connection it dials is AUTH and its reply if a password is configured,  *)
(* then SELECT and its reply if a database index other than 0 is           *)
(* configured, and only then commands of the caller; a connection found    *)
(* open gets commands of the caller only; a call in which a handshake step *)
(* failed leaves no connection, and a connection left by a call that       *)
(* dialled has had its whole handshake.                                    *)
C25_HandshakeBeforeCommands ==
    [][calls' = calls + 1 =>
        LET log == last'.log
        IN  /\ IsPrefix(Segment(log, 0), <<"CMD">>)
            /\ \A i \in Dials(log) :
                  IsPrefix(Segment(log, i), ExpectedHandshake(cfg) \o <<"CMD">>)
            /\ last'.phase = "handshake" => ~conn' /\ log[Len(log)] # "CMD"
            /\ conn' /\ Dials(log) # {} =>
                  \E i \in Dials(log) :
                      /\ \A j \in Dials(log) : j <= i
                      /\ IsPrefix(ExpectedHandshake(cfg), Segment(log, i))]_vars

C25_Witness ==
    /\ cfg.Password /\ cfg.DB = 1 /\ conn
    /\ last.log = <<"dial", "AUTH", "AUTH reply", "SELECT", "SELECT reply", "CMD">>

C27_PlacementOnlyForRegisteredRelay ==
    [][/\ Called("RegisterAgent") /\ last'.rid # EmptyID /\ last'.aid # EmptyID
          /\ (\A p \in Callers : pc[p] = "idle" /\ pc'[p] = "idle")
          => IF Exists(db, "relay", last'.rid) THEN last'.err = "nil"
             ELSE last'.err = "ErrRelayNotRegistered" /\ db' = db
       /\ \A p \in Callers :
            (Moved(p) /\ frame[p].op = "RegisterAgent" /\ db'.placement # db.placement)
            => Exists(db, "relay", frame[p].rid)]_vars


----------------------------------------------------------------------------
(* SpecConfig: a configuration is drawn, then parsed backend names,        *)
(* Config.Validate and registry.New are applied to it                      *)

BackendInputs == BackendKinds \cup {"", "zookeeper", "Redis"}

ConfigCall(op, arg, kind, built, err) ==
    /\ reg' = [reg EXCEPT !.op = op, !.arg = arg, !.kind = kind, !.built = built, !.err = err]
    /\ UNCHANGED <<variant, deadline, run, cfg, resp, socks, etcd, db, now, conn, last, mu, pc, frame, calls,
                   faults>>

ParseBackendCall ==
    \E s \in BackendInputs :
        ConfigCall("ParseRegistryBackend", s, ParseRegistryBackend(s).kind, FALSE,
                   ParseRegistryBackend(s).err)

ValidateCall ==
    /\ reg.config # NilConfig
    /\ ConfigCall("Validate", "", NoBackend, FALSE, ConfigValidate(reg.config))

NewCall == ConfigCall("New", "", NoBackend, New(reg.config).built, New(reg.config).err)

NextConfig == ParseBackendCall \/ ValidateCall \/ NewCall

InitConfig ==
    /\ variant = "wire"
    /\ cfg = NoAuth
    /\ reg \in {NoConfigCall(c) : c \in RegistryConfigs \cup {NilConfig}}
    /\ etcd = EmptyEtcd
    /\ db = EmptyDB
    /\ now = StartTime
    /\ conn = FALSE
    /\ socks = 0
    /\ deadline = NoDeadline
    /\ run = NotRunning
    /\ resp = NoBytes
    /\ last = NoCall
    /\ mu = NoCaller
    /\ pc = [p \in Callers |-> "idle"]
    /\ frame = [p \in Callers |-> NoFrame]
    /\ calls = 0
    /\ faults = 0

SpecConfig == InitConfig /\ [][NextConfig]_vars

(* C28: ParseRegistryBackend maps each of "redis", "etcd", "consul" and    *)
(* "memory" to the backend kind of that name with no error, and returns    *)
(* the empty kind with ErrUnsupportedBackend for every other string.       *)
C28_ParseRegistryBackend ==
    reg.op = "ParseRegistryBackend" =>
        IF reg.arg \in BackendKinds
        THEN reg.kind = reg.arg /\ reg.err = "nil"
        ELSE reg.kind = NoBackend /\ reg.err = "ErrUnsupportedBackend"


(* C29: registry construction succeeds only for a valid configuration.     *)
(* New rejects a nil config; Config.Validate (and New after it) returns an *)
(* error whenever the backend kind is unknown, the redis sub-config is     *)
(* missing or invalid for the redis kind, the listen port is not positive, *)
(* TLS is enabled without a cert path or a key path, or either TTL is not  *)
(* strictly positive, and returns nil otherwise.                           *)
InvalidRedis(r) == r = NilRedis \/ r.Address = "" \/ r.Port <= 0 \/ r.DB < 0
InvalidConfig(c) ==
    \/ c.Type \notin BackendKinds
    \/ c.Type = RedisRegistryBackend /\ InvalidRedis(c.Redis)
    \/ c.ListenPort <= 0
    \/ c.TLS.Enabled /\ (c.TLS.CertPath = "" \/ c.TLS.KeyPath = "")
    \/ c.Agent <= 0
    \/ c.Relay <= 0

C29_ConstructionOnlyForValidConfig ==
    /\ reg.op = "Validate" => (reg.err # "nil" <=> InvalidConfig(reg.config))
    /\ reg.op = "New" =>
        /\ reg.config = NilConfig => reg.err = "ErrNilConfig"
        /\ reg.built <=> (reg.config # NilConfig /\ ~InvalidConfig(reg.config))
        /\ reg.built <=> reg.err = "nil"

C29_Witness ==
    /\ reg.op = "New" /\ reg.built
    /\ reg.config.Type = RedisRegistryBackend
    /\ reg.config.TLS.Enabled


----------------------------------------------------------------------------
(* SpecPlaceholder: the placeholder backends (memory, consul, the stub     *)
(* redis adapter).  They keep nothing but their config.                    *)

Placeholders == {"memory", "consul", "stubredis"}

P_NotImplemented_Accepts(d, c) == Ok(d, c)

P_NotImplemented(d, c) == Fail(d, c, "ErrNotImplemented")

P_Close(d, c) == Ok(d, c)

RegisterRelayP ==
    \E id \in RelayIdInputs, seen \in TimeInputs :
        Return("RegisterRelay", id, "", seen, NoFailure, P_NotImplemented(db, conn))

HeartbeatRelayP ==
    \E id \in RelayIdInputs, ts \in TimeInputs :
        Return("HeartbeatRelay", id, "", ts, NoFailure, P_NotImplemented(db, conn))

ListRelaysP ==
    Return("ListRelays", "", "", ZeroTime, NoFailure, P_NotImplemented(db, conn))

RemoveRelayP ==
    \E id \in RelayIdInputs :
        Return("RemoveRelay", id, "", ZeroTime, NoFailure, P_NotImplemented(db, conn))

RegisterAgentP ==
    \E aid \in AgentIdInputs, rid \in RelayIdInputs, hb \in TimeInputs :
        Return("RegisterAgent", rid, aid, hb, NoFailure, P_NotImplemented(db, conn))

HeartbeatAgentP ==
    \E aid \in AgentIdInputs, ts \in TimeInputs :
        Return("HeartbeatAgent", "", aid, ts, NoFailure, P_NotImplemented(db, conn))

GetAgentPlacementP ==
    \E aid \in AgentIdInputs :
        Return("GetAgentPlacement", "", aid, ZeroTime, NoFailure, P_NotImplemented(db, conn))

CloseP == Return("Close", "", "", ZeroTime, NoFailure, P_Close(db, conn))

NextPlaceholder ==
    \/ RegisterRelayP
    \/ HeartbeatRelayP
    \/ ListRelaysP
    \/ RemoveRelayP
    \/ RegisterAgentP
    \/ HeartbeatAgentP
    \/ GetAgentPlacementP
    \/ CloseP
    \/ Tick

InitPlaceholder ==
    /\ variant \in Placeholders
    /\ cfg = NoAuth
    /\ reg = NoConfigCall(ValidConfig)
    /\ etcd = EmptyEtcd
    /\ db = EmptyDB
    /\ now = StartTime
    /\ conn = FALSE
    /\ socks = 0
    /\ deadline = NoDeadline
    /\ run = NotRunning
    /\ resp = NoBytes
    /\ last = NoCall
    /\ mu = NoCaller
    /\ pc = [p \in Callers |-> "idle"]
    /\ frame = [p \in Callers |-> NoFrame]
    /\ calls = 0
    /\ faults = 0

SpecPlaceholder == InitPlaceholder /\ [][NextPlaceholder]_vars

(* C30: every read or write operation of a placeholder backend returns the *)
(* fixed not-implemented error and no result, whatever its arguments and   *)
(* whatever operations preceded it (a Close included), stores nothing, and *)
(* its Close returns nil.                                                  *)
C30_PlaceholderNotImplemented ==
    [][calls' = calls + 1 =>
        /\ last'.op \in Ops => last'.err = "ErrNotImplemented"
        /\ last'.op = "Close" => last'.err = "nil"
        /\ last'.op \in Ops \cup {"Close"}
        /\ last'.relays = {} /\ last'.placement = <<>>
        /\ db' = db /\ conn' = conn]_vars

C30_Witness ==
    /\ variant = "memory"
    /\ calls >= 3
    /\ last.op = "RegisterAgent" /\ last.rid # EmptyID /\ last.aid # EmptyID
    /\ last.err = "ErrNotImplemented"
    /\ last.at > StartTime


(* C31: the wire-protocol backend holds at most one open connection at any *)
(* time.  Constructing the backend opens none; the first command dials     *)
(* one; while a connection is held a later command reuses it instead of    *)
(* dialing another, and at no moment of a call are two sockets open.       *)
C31_AtMostOneConnection ==
    [][calls' = calls + 1 =>
        /\ calls = 0 => socks = 0 /\ ~conn
        /\ last'.peak <= 1 /\ socks' <= 1
        /\ conn' <=> socks' = 1
        /\ ~conn /\ last'.steps > 0 /\ last'.fault # 1 => last'.log[1] = "dial"
        /\ conn /\ last'.fault = 0 /\ last'.op # "Close" =>
               conn' /\ Dials(last'.log) = {} /\ last'.steps > 0]_vars

C31_Witness ==
    /\ calls >= 3 /\ conn /\ socks = 1
    /\ last.op = "ListRelays" /\ last.err = "nil" /\ last.fault = 0
    /\ Dials(last.log) = {} /\ last.steps > 0
    /\ faults = 1


----------------------------------------------------------------------------
(* SpecRESP: a command is drawn, written by writeRESP and the bytes read   *)
(* back by readRESP                                                        *)

MaxArgs == 2
ManyArgs == 11
LongArg == <<"a", "b", CR, LF, "$", "1", "2", CR, LF, "*", "c", LF>>
ArgInputs ==
    {<<>>, <<"a">>, <<CR>>, <<LF>>, CRLF, <<"$", "1">>, <<"a", CR, LF, "b">>,
     <<"+", "O", "K", CR, LF>>, LongArg}
CommandInputs ==
    UNION {[1..n -> ArgInputs] : n \in 0..MaxArgs} \cup {[i \in 1..ManyArgs |-> <<"a">>]}

WriteCommand ==
    /\ resp.stage = "none"
    /\ resp' = [resp EXCEPT !.stage = "written", !.bytes = writeRESP(resp.args)]
    /\ UNCHANGED <<variant, deadline, run, cfg, reg, socks, etcd, db, now, conn, last, mu, pc, frame, calls,
                   faults>>

ReadCommand ==
    /\ resp.stage = "written"
    /\ resp' = [resp EXCEPT !.stage = "read", !.read = readRESP(resp.bytes)]
    /\ UNCHANGED <<variant, deadline, run, cfg, reg, socks, etcd, db, now, conn, last, mu, pc, frame, calls,
                   faults>>

NextRESP == WriteCommand \/ ReadCommand

InitRESP ==
    /\ variant = "wire"
    /\ cfg = NoAuth
    /\ reg = NoConfigCall(ValidConfig)
    /\ resp \in {[NoBytes EXCEPT !.args = c] : c \in CommandInputs}
    /\ socks = 0
    /\ deadline = NoDeadline
    /\ run = NotRunning
    /\ etcd = EmptyEtcd
    /\ db = EmptyDB
    /\ now = StartTime
    /\ conn = FALSE
    /\ last = NoCall
    /\ mu = NoCaller
    /\ pc = [p \in Callers |-> "idle"]
    /\ frame = [p \in Callers |-> NoFrame]
    /\ calls = 0
    /\ faults = 0

SpecRESP == InitRESP /\ [][NextRESP]_vars

(* C32: for every command (any list of byte-string arguments, empty        *)
(* arguments and arguments holding CR or LF bytes included), the bytes     *)
(* written by the encoder decode to an array of bulk strings equal to the  *)
(* arguments, and the decoder consumes exactly the bytes written.          *)
C32_EncodeDecodeRoundTrip ==
    resp.stage = "read" =>
        /\ resp.read.err = "nil"
        /\ resp.read.t = "array"
        /\ Len(resp.read.v) = Len(resp.args)
        /\ \A i \in 1..Len(resp.args) :
               resp.read.v[i].t = "bulk" /\ resp.read.v[i].v = resp.args[i]
        /\ resp.read.rest = <<>>

C32_Witness ==
    /\ resp.stage = "read"
    /\ Len(resp.args) = MaxArgs
    /\ resp.args[1] = LongArg
    /\ resp.args[MaxArgs] = <<>>
    /\ resp.read.err = "nil"
    /\ Len(resp.bytes) > Len(LongArg) + Base


----------------------------------------------------------------------------
(* SpecReply: exec and execMulti on the bytes of the shared connection.    *)
(* The server answers every command it receives with one reply; a reply    *)
(* may be cut short (the deadline passes or the peer closes before the     *)
(* rest arrives), and a write may fail.  resp.bytes are the bytes on the   *)
(* connection that no reader has consumed, resp.args the answer to the     *)
(* last command of the last call, resp.read what that call returned.       *)

MaxReplyCalls == 3

Answer(bytes) == [sent |-> TRUE, bytes |-> bytes]
WriteFails == [sent |-> FALSE, bytes |-> <<>>]

OkReply == <<"+", "O", "K", CR, LF>>
QueuedReply == <<"+", "Q", CR, LF>>
ErrReply == <<"-", "E", "R", "R", CR, LF>>
IntReply == <<":", "1", CR, LF>>
NilBulkReply == <<"$", "-", "1", CR, LF>>
BulkReply == <<"$", "4", CR, LF, "a", CR, LF, "b", CR, LF>>
NilArrayReply == <<"*", "-", "1", CR, LF>>
EmptyArrayReply == <<"*", "0", CR, LF>>
ArrayReply == <<"*", "2", CR, LF>> \o BulkReply \o NilBulkReply
NestedReply == <<"*", "2", CR, LF, "*", "1", CR, LF>> \o IntReply \o OkReply
ArrayWithErrorReply == <<"*", "3", CR, LF>> \o OkReply \o ErrReply \o IntReply
UnknownPrefixReply == <<"_", CR, LF>>
BadLengthReply == <<"$", "x", CR, LF, "a", CR, LF>>
CutBulkReply == <<"$", "4", CR, LF, "a", CR>>
CutArrayReply == <<"*", "2", CR, LF>> \o OkReply

ReplyInputs ==
    {OkReply, QueuedReply, ErrReply, IntReply, NilBulkReply, BulkReply, NilArrayReply,
     EmptyArrayReply, ArrayReply, NestedReply, ArrayWithErrorReply, UnknownPrefixReply,
     BadLengthReply, CutBulkReply, CutArrayReply, <<>>}
AnswerInputs == {Answer(b) : b \in ReplyInputs} \cup {WriteFails}
StatusAnswers == {Answer(OkReply), Answer(ErrReply), WriteFails}
MultiAnswers == {Answer(OkReply), Answer(<<>>)}
QueueAnswers == {Answer(QueuedReply), Answer(ErrReply)}

NoReply == [t |-> "none", v |-> <<>>]
Wire(c, buf) == [conn |-> c, buf |-> buf, err |-> "nil", res |-> NoReply]

(* a round trip that keeps the connection when the reply is an error *)
roundTrip_KeepsConnection(x, ans) ==
    IF x.err # "nil" THEN x
    ELSE IF ~ans.sent THEN [x EXCEPT !.conn = FALSE, !.buf = <<>>, !.err = "io"]
    ELSE LET r == readRESP(x.buf \o ans.bytes)
         IN  IF r.err = "nil" THEN [x EXCEPT !.buf = r.rest, !.res = [t |-> r.t, v |-> r.v]]
             ELSE IF r.err = "reply" THEN [x EXCEPT !.buf = r.rest, !.err = r.err]
             ELSE [x EXCEPT !.conn = FALSE, !.buf = <<>>, !.err = r.err]

(* writeRESP of one command and readRESP of its reply; closeConn (or       *)
(* conn.Close during the handshake) on every error                         *)
roundTrip(x, ans) ==
    IF x.err # "nil" THEN x
    ELSE IF ~ans.sent THEN [x EXCEPT !.conn = FALSE, !.buf = <<>>, !.err = "io"]
    ELSE LET r == readRESP(x.buf \o ans.bytes)
         IN  IF r.err = "nil" THEN [x EXCEPT !.buf = r.rest, !.res = [t |-> r.t, v |-> r.v]]
             ELSE [x EXCEPT !.conn = FALSE, !.buf = <<>>, !.err = r.err]

RECURSIVE roundTrips(_, _)
roundTrips(x, answers) ==
    IF answers = <<>> THEN x ELSE roundTrips(roundTrip(x, Head(answers)), Tail(answers))

(* ensureConn: a new connection starts with a new reader *)
ensureConnBytes(x, hs) ==
    IF x.conn THEN x ELSE roundTrips([x EXCEPT !.conn = TRUE, !.buf = <<>>], hs)

execBytes(x, hs, ans) == roundTrip(ensureConnBytes(x, hs), ans)

(* MULTI, the queued commands, EXEC; the EXEC reply must be an array *)
execMultiBytes(x, hs, answers) ==
    LET y == roundTrips(ensureConnBytes(x, hs), answers)
    IN  IF y.err = "nil" /\ y.res.t # "array"
        THEN [y EXCEPT !.err = "unexpected EXEC response type"]
        ELSE y

ReplyCall(stage, answers, y) ==
    /\ calls < MaxReplyCalls
    /\ calls' = calls + 1
    /\ faults' = IF y.err # "nil" THEN faults + 1 ELSE faults
    /\ conn' = y.conn
    /\ socks' = IF y.conn THEN 1 ELSE 0
    /\ resp' = [args |-> <<answers[Len(answers)]>>, stage |-> stage, bytes |-> y.buf,
                read |-> [t |-> y.res.t, v |-> y.res.v, err |-> y.err, rest |-> y.buf]]
    /\ UNCHANGED <<variant, deadline, run, cfg, reg, etcd, db, now, last, mu, pc, frame>>

HandshakeAnswers == IF conn THEN {<<>>} ELSE [1..Len(HandshakeCmds(cfg)) -> StatusAnswers]

ExecReply ==
    \E hs \in HandshakeAnswers, ans \in AnswerInputs :
        ReplyCall("exec", <<ans>>, execBytes(Wire(conn, resp.bytes), hs, ans))

ExecMultiReply ==
    \E hs \in HandshakeAnswers, m \in MultiAnswers, n \in 1..2 :
        \E q \in [1..n -> QueueAnswers], e \in AnswerInputs :
            LET answers == <<m>> \o q \o <<e>>
            IN  ReplyCall("execMulti", answers,
                          execMultiBytes(Wire(conn, resp.bytes), hs, answers))

NextReply == ExecReply \/ ExecMultiReply

InitReply ==
    /\ variant = "wire"
    /\ cfg \in Configs
    /\ reg = NoConfigCall(ValidConfig)
    /\ resp = NoBytes
    /\ socks = 0
    /\ deadline = NoDeadline
    /\ run = NotRunning
    /\ etcd = EmptyEtcd
    /\ db = EmptyDB
    /\ now = StartTime
    /\ conn = FALSE
    /\ last = NoCall
    /\ mu = NoCaller
    /\ pc = [p \in Callers |-> "idle"]
    /\ frame = [p \in Callers |-> NoFrame]
    /\ calls = 0
    /\ faults = 0

SpecReply == InitReply /\ [][NextReply]_vars

(* C37: a connection kept for reuse holds no unread reply bytes, and the   *)
(* reply a call returns is the reply the server sent to the last command   *)
(* of that call, whatever calls succeeded or failed before it.             *)
C37_NoLeftoverReplyBytes ==
    /\ conn => resp.bytes = <<>>
    /\ resp.stage \in {"exec", "execMulti"} /\ resp.read.err = "nil" =>
           LET own == readRESP(resp.args[1].bytes)
           IN  /\ own.err = "nil" /\ own.rest = <<>>
               /\ resp.read.t = own.t /\ resp.read.v = own.v

C37_Witness ==
    /\ calls = MaxReplyCalls /\ faults >= 2 /\ conn
    /\ resp.stage = "exec" /\ resp.read.err = "nil"
    /\ resp.args[1].bytes = NestedReply
    /\ resp.read.t = "array" /\ Len(resp.read.v) = 2


----------------------------------------------------------------------------
(* SpecDeadline: exec and execMulti under contexts with and without a      *)
(* deadline, the clock advancing between calls.  The server answers at     *)
(* once; an I/O operation on a connection whose deadline has passed fails. *)

MaxDeadlineCalls == 3
MaxAhead == 2

(* the deadlines a context may carry at time t *)
ContextDeadlines(t) == {NoDeadline} \cup {t + k : k \in 1..MaxAhead}

TimedOut(d, t) == d # NoDeadline /\ t >= d

(* ensureConn, SetDeadline, writeRESP and readRESP of exec and execMulti   *)
(* for a context of deadline d at time t, on connection x                  *)
execDeadline(x, d, t) ==
    LET dialled == IF x.conn THEN x ELSE [conn |-> TRUE, deadline |-> d]
        set == IF d # NoDeadline THEN [dialled EXCEPT !.deadline = d] ELSE dialled
    IN  IF ~x.conn /\ TimedOut(d, t)
        THEN [conn |-> FALSE, deadline |-> NoDeadline, err |-> "context deadline exceeded"]
        ELSE IF TimedOut(set.deadline, t)
        THEN [conn |-> FALSE, deadline |-> NoDeadline, err |-> "i/o timeout"]
        ELSE [conn |-> TRUE, deadline |-> set.deadline, err |-> "nil"]

DeadlineCall(op) ==
    \E d \in ContextDeadlines(now) :
        LET r == execDeadline([conn |-> conn, deadline |-> deadline], d, now)
        IN  /\ calls < MaxDeadlineCalls
            /\ calls' = calls + 1
            /\ conn' = r.conn
            /\ socks' = IF r.conn THEN 1 ELSE 0
            /\ deadline' = r.deadline
            /\ last' = [NoCall EXCEPT !.op = op, !.at = now, !.ts = d, !.err = r.err,
                                      !.ctx = IF d = NoDeadline THEN "no deadline"
                                              ELSE "deadline"]
            /\ UNCHANGED <<variant, run, cfg, reg, resp, etcd, db, now, mu, pc, frame, faults>>

ExecDeadline == DeadlineCall("exec")
ExecMultiDeadline == DeadlineCall("execMulti")

NextDeadline == ExecDeadline \/ ExecMultiDeadline \/ Tick

SpecDeadline == InitWire /\ [][NextDeadline]_vars

(* C38: a call whose context carries no deadline is not subject to the     *)
(* deadline an earlier call left on the connection: with a server that     *)
(* answers at once, such a call does not fail.                             *)
C38_NoInheritedDeadline ==
    [][calls' = calls + 1 /\ last'.ctx = "no deadline" => last'.err = "nil"]_vars


----------------------------------------------------------------------------
(* SpecRun: Registry.Run.  Run starts a goroutine that waits for the       *)
(* context and reports ctx.Err() on runErrCh, waits in a select for that   *)
(* report or for ctx.Done(), then starts the shutdown goroutine and waits  *)
(* in a second select for its report or for the shutdown context.  A       *)
(* select with several ready cases takes any of them.  Durations are in    *)
(* ticks of the clock.                                                     *)

MaxShutdownTimeout == 2
ShutdownTimeouts == 0..MaxShutdownTimeout
Canceled == "context canceled"
DeadlineExceeded == "context deadline exceeded"

RunStep(r) ==
    /\ run' = r
    /\ UNCHANGED <<variant, deadline, cfg, reg, resp, socks, etcd, db, now, conn, last, mu, pc,
                   frame, calls, faults>>

(* Run is called: runErrCh is made and the serving goroutine started *)
RunCall ==
    /\ run.pc = "none"
    /\ RunStep([run EXCEPT !.pc = "select", !.serving = TRUE])

(* the context ends: by cancellation (a signal) or by its deadline *)
ContextDone ==
    /\ run.ctx = "live"
    /\ \E e \in {Canceled, DeadlineExceeded} : RunStep([run EXCEPT !.ctx = e])

(* the serving goroutine: <-ctx.Done(); runErrCh <- ctx.Err() *)
ServeReturns ==
    /\ run.serving /\ run.ctx # "live"
    /\ RunStep([run EXCEPT !.serving = FALSE, !.runErrCh = <<run.ctx>>])

(* shutdownCtx is made, the shutdown goroutine started *)
BeginShutdown(r) == [r EXCEPT !.pc = "shutdown", !.since = now]

(* first select, case err := <-runErrCh *)
SelectRunErr ==
    /\ run.pc = "select" /\ run.runErrCh # <<>>
    /\ LET err == Head(run.runErrCh)
           r == [run EXCEPT !.runErrCh = <<>>]
       IN  RunStep(IF err # "nil" /\ err # Canceled
                   THEN [r EXCEPT !.pc = "returned", !.ret = err]
                   ELSE IF run.ctx = "live" THEN [r EXCEPT !.pc = "returned", !.ret = "nil"]
                   ELSE BeginShutdown(r))

(* first select, case <-ctx.Done() *)
SelectDone ==
    /\ run.pc = "select" /\ run.ctx # "live"
    /\ RunStep(BeginShutdown(run))

(* the shutdown goroutine: shutdownErrCh <- nil *)
ShutdownDone ==
    /\ run.since # ZeroTime /\ run.doneAt = ZeroTime
    /\ RunStep([run EXCEPT !.shutdownErrCh = <<"nil">>, !.doneAt = now])

(* second select, case err := <-shutdownErrCh *)
SelectShutdownErr ==
    /\ run.pc = "shutdown" /\ run.shutdownErrCh # <<>>
    /\ LET err == Head(run.shutdownErrCh)
       IN  RunStep([run EXCEPT !.shutdownErrCh = <<>>, !.pc = "returned",
                               !.ret = IF err # "nil" /\ err # Canceled THEN err ELSE "nil"])

(* a shutdown context that is given a timeout even when none is set *)
ShutdownExpired_AlwaysTimed(r, t) == t >= r.since + r.shutdownTimeout

(* shutdownCtx.Done() is ready: only a context made by WithTimeout expires *)
ShutdownExpired(r, t) == r.shutdownTimeout > 0 /\ t >= r.since + r.shutdownTimeout

(* second select, case <-shutdownCtx.Done() *)
SelectShutdownCtx ==
    /\ run.pc = "shutdown" /\ ShutdownExpired(run, now)
    /\ RunStep([run EXCEPT !.pc = "returned", !.ret = DeadlineExceeded])

RunProgress ==
    \/ RunCall \/ ServeReturns \/ SelectRunErr \/ SelectDone
    \/ ShutdownDone \/ SelectShutdownErr \/ SelectShutdownCtx

NextRun == RunProgress \/ ContextDone \/ Tick

InitRun ==
    /\ variant = "wire"
    /\ cfg = NoAuth
    /\ reg = NoConfigCall(ValidConfig)
    /\ resp = NoBytes
    /\ socks = 0
    /\ deadline = NoDeadline
    /\ run \in {[NotRunning EXCEPT !.shutdownTimeout = d] : d \in ShutdownTimeouts}
    /\ etcd = EmptyEtcd
    /\ db = EmptyDB
    /\ now = StartTime
    /\ conn = FALSE
    /\ last = NoCall
    /\ mu = NoCaller
    /\ pc = [p \in Callers |-> "idle"]
    /\ frame = [p \in Callers |-> NoFrame]
    /\ calls = 0
    /\ faults = 0

(* every goroutine of Run that can take a step eventually takes one *)
SpecRun == InitRun /\ [][NextRun]_vars /\ WF_vars(RunProgress)

(* shutdown completed before the shutdown timeout ran out, or there is no  *)
(* timeout                                                                 *)
ShutdownInTime(r) ==
    \/ r.shutdownTimeout = 0
    \/ r.doneAt # ZeroTime /\ r.doneAt < r.since + r.shutdownTimeout

(* C39 as stated: Run does not return while its context is live; when it   *)
(* returns after the context was cancelled, it returns nil if shutdown     *)
(* completed within the shutdown timeout (or no timeout is set) and the    *)
(* shutdown context's error otherwise.                                     *)
C39_RunReturnsAfterCancel ==
    run.pc = "returned" =>
        /\ run.ctx # "live"
        /\ run.ctx = Canceled =>
               run.ret = IF ShutdownInTime(run) THEN "nil" ELSE DeadlineExceeded

(* what Run returned after a cancellation: nil, having received the report *)
(* of the shutdown goroutine, or the shutdown context's error, a timeout   *)
(* being set and expired                                                   *)
RunResult ==
    \/ run.ret = "nil" /\ run.doneAt # ZeroTime
    \/ /\ run.ret = DeadlineExceeded
       /\ run.shutdownTimeout > 0 /\ now >= run.since + run.shutdownTimeout

(* C39 amended: Run does not return while its context is live, and once    *)
(* the context has ended a started Run always returns; after a             *)
(* cancellation it returns nil only once shutdown has completed and the    *)
(* shutdown context's error only once a shutdown timeout is set and has    *)
(* expired.                                                                *)
C39_RunReturnsNilOrTimeout ==
    /\ [](run.pc = "returned" => run.ctx # "live" /\ (run.ctx = Canceled => RunResult))
    /\ (run.pc # "none" /\ run.ctx # "live") ~> (run.pc = "returned")

(* shutdown completed in time, the timeout expired before Run looked, and  *)
(* the select took the shutdown context                                    *)
C39_Witness ==
    /\ run.pc = "returned" /\ run.ctx = Canceled
    /\ run.ret = DeadlineExceeded
    /\ run.doneAt # ZeroTime /\ run.doneAt < run.since + run.shutdownTimeout


----------------------------------------------------------------------------
(* Races between two calls.  The calls that set the store up run one at a  *)
(* time, no other call being in progress; then two callers run the calls   *)
(* under study step by step.  The clock stands still.                      *)

MaxRaceCalls == 5
Quiet == \A p \in Callers : pc[p] = "idle"

(* SpecAgentRace: both adapters; relays and an agent are registered, then  *)
(* RegisterAgent and HeartbeatAgent run concurrently                       *)
SetUpRelay == Quiet /\ DoRegisterRelay(RelayIds, {ZeroTime}, {NoFailure})
SetUpAgent == Quiet /\ DoRegisterAgent(AgentIds, {"r1"}, {ZeroTime}, {NoFailure})
RaceRegisterAgent ==
    \E p \in Callers, aid \in AgentIds :
        StartCallWithin(p, "RegisterAgent", "r2", aid, ZeroTime, MaxRaceCalls)
RaceHeartbeatAgent ==
    \E p \in Callers, aid \in AgentIds :
        StartCallWithin(p, "HeartbeatAgent", "", aid, StartTime + 1, MaxRaceCalls)

NextAgentRace ==
    \/ SetUpRelay
    \/ SetUpAgent
    \/ RaceRegisterAgent
    \/ RaceHeartbeatAgent
    \/ Lock_
    \/ Write
    \/ Read
    \/ Unlock
    \/ Command

SpecAgentRace == Init /\ [][NextAgentRace]_vars

(* C33: HeartbeatAgent never changes which relay an agent is placed on: no *)
(* step of a HeartbeatAgent call changes the relay_id of a stored          *)
(* placement, so that after a RegisterAgent(a, r2) that completed while    *)
(* the heartbeat was in progress the placement's relay_id is r2.           *)
C33_HeartbeatKeepsRelay ==
    [][\A p \in Callers, a \in AgentIds :
          (/\ Moved(p) /\ frame[p].op = "HeartbeatAgent" /\ frame[p].aid = a
           /\ Exists(db, "placement", a) /\ Exists(db', "placement", a))
          => PlacementView(db', a).RelayID = PlacementView(db, a).RelayID]_vars


(* SpecRelayRace: the wire-protocol adapter; a relay is registered, then   *)
(* RegisterRelay (with a new address and port), HeartbeatRelay,            *)
(* RemoveRelay and ListRelays run concurrently                             *)
NewAddress == "10.0.0.2"
NewPort == 50052
RaceRegisterRelay ==
    \E p \in Callers, rid \in FailRelayIds :
        StartFrame(p, [NoFrame EXCEPT !.op = "RegisterRelay", !.rid = rid,
                                      !.addr = NewAddress, !.port = NewPort], MaxRaceCalls)
RaceHeartbeatRelay ==
    \E p \in Callers, rid \in FailRelayIds :
        StartCallWithin(p, "HeartbeatRelay", rid, "", StartTime + 1, MaxRaceCalls)
RaceRemoveRelay ==
    \E p \in Callers, rid \in FailRelayIds :
        StartCallWithin(p, "RemoveRelay", rid, "", ZeroTime, MaxRaceCalls)
RaceListRelays ==
    \E p \in Callers : StartCallWithin(p, "ListRelays", "", "", ZeroTime, MaxRaceCalls)

SetUpOneRelay == Quiet /\ DoRegisterRelay(FailRelayIds, {ZeroTime}, {NoFailure})

NextRelayRace ==
    \/ SetUpOneRelay
    \/ RaceRegisterRelay
    \/ RaceHeartbeatRelay
    \/ RaceRemoveRelay
    \/ RaceListRelays
    \/ Lock_
    \/ Write
    \/ Read
    \/ Unlock

SpecRelayRace == InitWire /\ [][NextRelayRace]_vars

(* C34: a relay whose RemoveRelay has returned success stays unregistered  *)
(* until a later RegisterRelay is invoked for it: no step of a             *)
(* HeartbeatRelay call, concurrent with the RemoveRelay or not, creates    *)
(* the relay record or its index entry.                                    *)
C34_HeartbeatNeverRecreates ==
    [][\A p \in Callers, r \in RelayIds :
          (Moved(p) /\ frame[p].op = "HeartbeatRelay" /\ frame[p].rid = r)
          => /\ Exists(db', "relay", r) => Exists(db, "relay", r)
             /\ r \in db'.relays => r \in db.relays]_vars


(* C35: HeartbeatRelay changes only last_seen: no step of a HeartbeatRelay *)
(* call changes the address or the port of a stored relay, so that after   *)
(* any interleaving with a RegisterRelay of the same relay that carries a  *)
(* new address or port, the stored ones are those of the RegisterRelay.    *)
C35_HeartbeatChangesOnlyLastSeen ==
    [][\A p \in Callers, r \in RelayIds :
          (/\ Moved(p) /\ frame[p].op = "HeartbeatRelay" /\ frame[p].rid = r
           /\ Exists(db, "relay", r) /\ Exists(db', "relay", r))
          => /\ RelayView(db', r).Address = RelayView(db, r).Address
             /\ RelayView(db', r).GRPCPort = RelayView(db, r).GRPCPort]_vars


(* C36: the stale-entry cleanup of ListRelays never removes the record or  *)
(* the index membership of a relay that is live at the moment of removal:  *)
(* a relay that is stored, indexed and within its TTL before a step of a   *)
(* ListRelays call is stored and indexed after it.                         *)
C36_CleanupSparesLiveRelays ==
    [][\A p \in Callers, r \in RelayIds :
          (/\ Moved(p) /\ frame[p].op = "ListRelays"
           /\ RelayLive(db, now, r) /\ r \in db.relays)
          => Exists(db', "relay", r) /\ r \in db'.relays]_vars

====
